---- MODULE Spec2Model ----
(***************************************************************************)
(* Pipeline-graph assembly of evalml/pipelines/utils.py.                   *)
(*                                                                         *)
(* Python values are modelled as follows.                                  *)
(*   - str: a TLA+ string; None and "" (both falsy) are "".                *)
(*   - dict: a sequence of records [k |-> key, v |-> value] in insertion   *)
(*     order (Python dicts keep insertion order; assigning to an existing  *)
(*     key keeps the key's position).                                      *)
(*   - a component-graph entry [component, input, ...]: a sequence of      *)
(*     strings whose head is the component (named by its class name).      *)
(*   - a mutable dict object: a slot of `heap`; a reference is the slot's  *)
(*     index and 0 is None.  Two names bound to the same index alias.      *)
(***************************************************************************)
EXTENDS Integers, Sequences, FiniteSets, TLC

VARIABLES
    heap,      \* the dict objects: heap[r] is the value of object r
    caller,    \* the references the caller retains: pre, post, parameters
    args,      \* the immutable arguments the caller passes on every call
    original,  \* what the caller's dict objects held when the caller built them
    entry,     \* what the dict arguments held when the latest call began
    result,    \* what the latest call produced
    ncalls     \* number of calls made so far

vars == <<heap, caller, args, original, entry, result, ncalls>>

(***************************************************************************)
(* Bounds                                                                  *)
(***************************************************************************)
MaxPipelines == 2
MaxCalls == 2

(***************************************************************************)
(* Python dict and str operations                                          *)
(***************************************************************************)
Entry(key, val) == [k |-> key, v |-> val]

DictKeys(d) == [i \in 1..Len(d) |-> d[i].k]

HasKey(d, key) == \E i \in 1..Len(d) : d[i].k = key

DictGet(d, key) == d[CHOOSE i \in 1..Len(d) : d[i].k = key].v

\* d.get(key, {})
DictGetOrEmpty(d, key) == IF HasKey(d, key) THEN DictGet(d, key) ELSE <<>>

\* d[key] = val
DictSet(d, key, val) ==
    IF HasKey(d, key)
    THEN [i \in 1..Len(d) |-> IF d[i].k = key THEN Entry(key, val) ELSE d[i]]
    ELSE Append(d, Entry(key, val))

\* d.update(e)
RECURSIVE DictUpdate(_, _)
DictUpdate(d, e) ==
    IF e = <<>> THEN d
    ELSE DictUpdate(DictSet(d, e[1].k, e[1].v), Tail(e))

\* s.endswith(suffix)
EndsWith(s, suffix) ==
    /\ Len(s) >= Len(suffix)
    /\ SubSeq(s, Len(s) - Len(suffix) + 1, Len(s)) = suffix

\* list.count(x)
Count(list, x) == Cardinality({i \in 1..Len(list) : list[i] = x})

Last(list) == list[Len(list)]

(***************************************************************************)
(* Collaborators that live outside utils.py                                *)
(***************************************************************************)
ProblemTypes ==
    {"binary", "multiclass", "regression", "time series regression",
     "time series binary", "time series multiclass",
     "multiseries time series regression"}

is_classification(problem_type) ==
    problem_type \in {"binary", "multiclass", "time series binary",
                      "time series multiclass"}

\* The component registry: the components whose `modifies_target` flag is set.
TargetModifiers ==
    {"Label Encoder", "Target Imputer", "Drop NaN Rows Transformer",
     "Undersampler", "Oversampler", "STL Decomposer"}

\* handle_component_class: a component, or the name of one, to the component.
handle_component_class(component) == component

modifies_target(component) == component \in TargetModifiers

(***************************************************************************)
(* _make_pipeline_from_multiple_graphs                                     *)
(***************************************************************************)
\* Faulty variant: the occurrence index is left out of the new name.
make_new_component_name_without_idx(name, component_name, idx, pipeline_name) ==
    IF pipeline_name # ""
    THEN pipeline_name \o " Pipeline" \o " - " \o component_name
    ELSE name \o " Pipeline" \o " - " \o component_name

make_new_component_name(name, component_name, idx, pipeline_name) ==
    LET idx_str == IF idx # 0 THEN " " \o ToString(idx) ELSE ""
    IN  IF pipeline_name # ""
        THEN pipeline_name \o " Pipeline" \o idx_str \o " - " \o component_name
        ELSE name \o " Pipeline" \o idx_str \o " - " \o component_name

\* Faulty variant: the occurrences are counted from zero.
name_idx_from_zero(used_names, component_pipeline_name) ==
    IF Count(used_names, component_pipeline_name) > 0
    THEN Count(used_names, component_pipeline_name)
    ELSE 0

\* name_idx of a pipeline, given the names of the pipelines before it
name_idx(used_names, component_pipeline_name) ==
    IF Count(used_names, component_pipeline_name) > 0
    THEN Count(used_names, component_pipeline_name) + 1
    ELSE 0

sub_pipeline_name(sub_pipeline_names, pipeline) ==
    IF sub_pipeline_names # <<>>
    THEN DictGet(sub_pipeline_names, pipeline.name)
    ELSE ""

final_y_candidate(pipeline, idx, sub) ==
    IF ~modifies_target(handle_component_class(Last(pipeline.compute_order)))
    THEN ""
    ELSE make_new_component_name(pipeline.name, Last(pipeline.compute_order),
                                 idx, sub) \o ".y"

\* Faulty variant: a leading Label Encoder is not skipped.
first_x_component_unskipped(pipeline) == pipeline.compute_order[1]

first_x_component(pipeline) ==
    IF pipeline.compute_order[1] # "Label Encoder"
    THEN pipeline.compute_order[1]
    ELSE pipeline.compute_order[2]

\* Faulty variant: references to other nodes are copied without being renamed.
new_item_unrenamed(ctx, name, item) ==
    IF item \notin {"X", "y"}
    THEN item
    ELSE IF item = "y"
    THEN (IF is_classification(ctx.problem_type)
          THEN "Label Encoder.y" ELSE "y")
    ELSE IF /\ name = first_x_component(ctx.pipeline)
            /\ ctx.last_prior_component # ""
    THEN ctx.last_prior_component \o ".x"
    ELSE item

\* The values fixed while one input pipeline is processed:
\* ctx = [pipeline, idx, sub, last_prior_component, problem_type]
\* One input reference of node `name` (an item of its list at position > 0).
new_item(ctx, name, item) ==
    IF item \notin {"X", "y"}
    THEN make_new_component_name(ctx.pipeline.name, item, ctx.idx, ctx.sub)
    ELSE IF item = "y"
    THEN (IF is_classification(ctx.problem_type)
          THEN "Label Encoder.y" ELSE "y")
    ELSE IF /\ name = first_x_component(ctx.pipeline)
            /\ ctx.last_prior_component # ""
    THEN ctx.last_prior_component \o ".x"
    ELSE item

\* Faulty variant: the inputs are written in reverse order.
new_component_list_reversed(ctx, name, component_list) ==
    [i \in 1..Len(component_list) |->
        IF i = 1
        THEN handle_component_class(component_list[1])
        ELSE new_item(ctx, name,
                      component_list[Len(component_list) + 2 - i])]

new_component_list(ctx, name, component_list) ==
    [i \in 1..Len(component_list) |->
        IF i = 1
        THEN handle_component_class(component_list[1])
        ELSE new_item(ctx, name, component_list[i])]

\* final_y after the items of one node: the last ".y" reference, renamed.
node_final_y(ctx, component_list, final_y) ==
    LET refs == {i \in 2..Len(component_list) :
                    /\ component_list[i] \notin {"X", "y"}
                    /\ EndsWith(component_list[i], ".y")}
        last == CHOOSE i \in refs : \A j \in refs : j <= i
    IN  IF refs = {} THEN final_y
        ELSE make_new_component_name(ctx.pipeline.name, component_list[last],
                                     ctx.idx, ctx.sub)

\* parameters[new_component_name] = pipeline.parameters.get(name, {})
set_parameters(parameters, new_component_name, pipeline, name) ==
    DictSet(parameters, new_component_name,
            DictGetOrEmpty(pipeline.parameters, name))

\* The loop over pipeline.component_graph.component_dict.items(), from entry n.
\* st = [graph, parameters, final_y, final_component]
RECURSIVE rename_nodes(_, _, _)
rename_nodes(ctx, n, st) ==
    IF n > Len(ctx.pipeline.component_dict) THEN st
    ELSE
      LET name == ctx.pipeline.component_dict[n].k
          component_list == ctx.pipeline.component_dict[n].v
          new_component_name ==
              make_new_component_name(ctx.pipeline.name, name, ctx.idx,
                                      ctx.sub)
      IN  rename_nodes(ctx, n + 1,
            [graph |-> DictSet(st.graph, new_component_name,
                               new_component_list(ctx, name, component_list)),
             parameters |-> set_parameters(st.parameters, new_component_name,
                                           ctx.pipeline, name),
             final_y |-> node_final_y(ctx, component_list, st.final_y),
             final_component |-> new_component_name])

\* The loop over input_pipelines, from pipeline n.
\* a = the arguments, st = [graph, parameters, final_components, used_names,
\*                          final_y, final_y_candidate]
RECURSIVE merge_pipelines(_, _, _, _)
merge_pipelines(a, last_prior_component, n, st) ==
    IF n > Len(a.input_pipelines) THEN st
    ELSE
      LET pipeline == a.input_pipelines[n]
          ctx == [pipeline |-> pipeline,
                  idx |-> name_idx(st.used_names, pipeline.name),
                  sub |-> sub_pipeline_name(a.sub_pipeline_names, pipeline),
                  last_prior_component |-> last_prior_component,
                  problem_type |-> a.problem_type]
          done == rename_nodes(ctx, 1,
                     [graph |-> st.graph, parameters |-> st.parameters,
                      final_y |-> "y", final_component |-> ""])
      IN  merge_pipelines(a, last_prior_component, n + 1,
            [graph |-> done.graph,
             parameters |-> done.parameters,
             final_components |->
                 Append(st.final_components, done.final_component),
             used_names |-> Append(st.used_names, pipeline.name),
             final_y |-> done.final_y,
             final_y_candidate |->
                 final_y_candidate(pipeline, ctx.idx, ctx.sub)])

\* Faulty variant: the caller's dict is used as it is, without the deep copy.
copy_parameters_shared(h, ref) ==
    IF ref # 0 /\ h[ref] # <<>>
    THEN [heap |-> h, ref |-> ref]
    ELSE [heap |-> Append(h, <<>>), ref |-> Len(h) + 1]

\* parameters = copy.deepcopy(parameters) if parameters else {}
\* Returns the heap with the new object and the reference to it.
copy_parameters(h, ref) ==
    IF ref # 0 /\ h[ref] # <<>>
    THEN [heap |-> Append(h, h[ref]), ref |-> Len(h) + 1]
    ELSE [heap |-> Append(h, <<>>), ref |-> Len(h) + 1]

\* pre_pipeline_components = {} if not pre_pipeline_components else ...
\* component_graph = pre_pipeline_components
\* Returns the heap and the reference bound to component_graph.
bind_component_graph(h, ref) ==
    IF ref = 0 \/ h[ref] = <<>>
    THEN [heap |-> Append(h, <<>>), ref |-> Len(h) + 1]
    ELSE [heap |-> h, ref |-> ref]

\* list(pre_pipeline_components.keys())[-1] if pre_pipeline_components else None
last_prior_component(pre_pipeline_components) ==
    IF pre_pipeline_components # <<>>
    THEN Last(DictKeys(pre_pipeline_components))
    ELSE ""

add_label_encoder(component_graph, problem_type) ==
    IF is_classification(problem_type)
    THEN DictUpdate(component_graph,
                    <<Entry("Label Encoder", <<"Label Encoder", "X", "y">>)>>)
    ELSE component_graph

\* Faulty variant: without a candidate the graph input "y" is taken.
resolve_final_y_default(candidate, final_y) ==
    IF candidate # "" THEN candidate ELSE "y"

\* final_y = final_y_candidate if final_y_candidate else final_y
resolve_final_y(candidate, final_y) ==
    IF candidate # "" THEN candidate ELSE final_y

\* Faulty variant: the branches are listed last to first.
final_xs_reversed(final_components) ==
    [i \in 1..Len(final_components) |->
        final_components[Len(final_components) + 1 - i] \o ".x"]

\* [comp + ".x" for comp in final_components]
final_xs(final_components) ==
    [i \in 1..Len(final_components) |-> final_components[i] \o ".x"]

\* post_pipelines_components[first_pre_estimator_component] = ...
rewire_post(post_pipelines_components, final_components, final_y) ==
    LET first_pre_estimator_component == post_pipelines_components[1].k
    IN  DictSet(post_pipelines_components, first_pre_estimator_component,
                <<first_pre_estimator_component>>
                    \o final_xs(final_components) \o <<final_y>>)

\* Faulty variant: after post-components the estimator is given final_y itself.
estimator_inputs_final_y(estimator, last_pre_estimator_component, finals, final_y) ==
    IF last_pre_estimator_component # ""
    THEN <<estimator, last_pre_estimator_component \o ".x", final_y>>
    ELSE <<estimator>> \o final_xs(finals) \o <<final_y>>

\* component_graph[estimator.name] = ...
estimator_inputs(estimator, last_pre_estimator_component, finals, final_y) ==
    IF last_pre_estimator_component # ""
    THEN <<estimator, last_pre_estimator_component \o ".x",
           last_pre_estimator_component \o ".y">>
    ELSE <<estimator>> \o final_xs(finals) \o <<final_y>>

\* The keys of the pipeline_class lookup table
pipeline_class_keys ==
    {"binary", "multiclass", "regression", "time series binary",
     "time series multiclass", "time series regression"}

\* The whole function.  a = [input_pipelines, estimator, problem_type,
\* parameters, sub_pipeline_names, pre_pipeline_components,
\* post_pipelines_components], the last three and `parameters` by reference.
\* Returns [status, heap, component_graph, parameters]: the heap as the call
\* leaves it and the references handed to the pipeline class (0: no pipeline).
make_pipeline_from_multiple_graphs(h, a) ==
    LET pc == copy_parameters(h, a.parameters)
        cg == bind_component_graph(pc.heap, a.pre_pipeline_components)
        h0 == cg.heap
        pre == IF a.pre_pipeline_components = 0 THEN <<>>
               ELSE h0[a.pre_pipeline_components]
        lpc == last_prior_component(pre)
        g1 == add_label_encoder(h0[cg.ref], a.problem_type)
        m == merge_pipelines(a, lpc, 1,
                [graph |-> g1, parameters |-> h0[pc.ref],
                 final_components |-> <<>>, used_names |-> <<>>,
                 final_y |-> "y", final_y_candidate |-> ""])
        final_y == resolve_final_y(m.final_y_candidate, m.final_y)
        has_post == /\ a.post_pipelines_components # 0
                    /\ h0[a.post_pipelines_components] # <<>>
        post == IF has_post
                THEN rewire_post(h0[a.post_pipelines_components],
                                 m.final_components, final_y)
                ELSE <<>>
        g2 == IF has_post THEN DictUpdate(m.graph, post) ELSE m.graph
        last_pre_estimator_component ==
            IF has_post THEN Last(DictKeys(post)) ELSE ""
        g3 == DictSet(g2, a.estimator,
                 estimator_inputs(a.estimator, last_pre_estimator_component,
                                  m.final_components, final_y))
        h_loop == [h0 EXCEPT ![cg.ref] = m.graph, ![pc.ref] = m.parameters]
        h_post == IF has_post
                  THEN [h_loop EXCEPT ![a.post_pipelines_components] = post]
                  ELSE h_loop
        h_end == [h_post EXCEPT ![cg.ref] = g3]
    IN  IF a.input_pipelines = <<>>
        THEN \* final_y_candidate is unbound at the line that reads it
             [status |-> "UnboundLocalError", heap |-> h_loop,
              component_graph |-> 0, parameters |-> 0]
        ELSE IF a.problem_type \notin pipeline_class_keys
        THEN [status |-> "KeyError", heap |-> h_end,
              component_graph |-> 0, parameters |-> 0]
        ELSE [status |-> "ok", heap |-> h_end,
              component_graph |-> cg.ref, parameters |-> pc.ref]

(***************************************************************************)
(* The callers' inputs                                                     *)
(***************************************************************************)
\* Input pipelines.  component_dict is in construction order (every reference
\* names an earlier entry) and compute_order is its topological order.
ImputerOnly ==
    [name |-> "Base",
     component_dict |-> <<Entry("Imputer", <<"Imputer", "X", "y">>)>>,
     compute_order |-> <<"Imputer">>,
     parameters |->
         <<Entry("Imputer", <<Entry("numeric_impute_strategy", "mean")>>)>>]

EncodedImputer ==
    [name |-> "Base",
     component_dict |->
         <<Entry("Label Encoder", <<"Label Encoder", "X", "y">>),
           Entry("Imputer", <<"Imputer", "X", "Label Encoder.y">>)>>,
     compute_order |-> <<"Label Encoder", "Imputer">>,
     parameters |-> <<>>]

TargetImputed ==
    [name |-> "Aux",
     component_dict |->
         <<Entry("Imputer", <<"Imputer", "X", "y">>),
           Entry("One Hot Encoder", <<"One Hot Encoder", "X", "y">>),
           Entry("Target Imputer",
                 <<"Target Imputer", "Imputer.x", "One Hot Encoder.x", "y">>)>>,
     compute_order |-> <<"Imputer", "One Hot Encoder", "Target Imputer">>,
     parameters |->
         <<Entry("Target Imputer", <<Entry("impute_strategy", "median")>>)>>]

PipelinePool == {ImputerOnly, EncodedImputer, TargetImputed}

\* Lists of at most n pipelines drawn from the pool
RECURSIVE PipelineLists(_)
PipelineLists(n) ==
    IF n = 0 THEN {<<>>}
    ELSE LET shorter == PipelineLists(n - 1)
         IN  shorter \cup
             {Append(l, p) : l \in {x \in shorter : Len(x) = n - 1},
                             p \in PipelinePool}

\* sub_pipeline_names: None, or a dict that gives every pipeline name a new
\* name of its own (the caller keeps the new names apart)
SubPipelineNames ==
    {<<>>,
     <<Entry("Base", "Not Known In Advance"),
       Entry("Aux", "Known In Advance")>>}

\* pre_pipeline_components: empty, or a component graph that only alters X, or
\* one in which the caller has already put a Label Encoder
PreComponents ==
    {<<>>,
     <<Entry("Label Encoder", <<"Label Encoder", "X", "y">>)>>,
     <<Entry("DFS Transformer", <<"DFS Transformer", "X", "y">>)>>,
     <<Entry("DFS Transformer", <<"DFS Transformer", "X", "y">>),
       Entry("Drop Columns Transformer",
             <<"Drop Columns Transformer", "DFS Transformer.x", "y">>)>>}

PostComponents ==
    {<<>>,
     <<Entry("Drop NaN Rows Transformer",
             <<"Drop NaN Rows Transformer", "X", "y">>)>>,
     <<Entry("Drop NaN Rows Transformer",
             <<"Drop NaN Rows Transformer", "X", "y">>),
       Entry("Select Columns Transformer",
             <<"Select Columns Transformer", "Drop NaN Rows Transformer.x",
               "Drop NaN Rows Transformer.y">>)>>}

CallerParameters ==
    {<<>>,
     <<Entry("pipeline", <<Entry("gap", "1")>>),
       Entry("Base Pipeline - Imputer",
             <<Entry("numeric_impute_strategy", "median")>>)>>}

Estimators == {"Random Forest Classifier"}

\* The slots of the caller's three dict objects
PreRef == 1
PostRef == 2
ParametersRef == 3

(***************************************************************************)
(* The state machine: a caller that keeps its dict objects and calls       *)
(* _make_pipeline_from_multiple_graphs with them, again and again.         *)
(***************************************************************************)
NoResult ==
    [status |-> "none", ref |-> 0, component_graph |-> <<>>,
     parameters_ref |-> 0, parameters |-> <<>>]

NoEntry == [pre |-> <<>>, post |-> <<>>, parameters |-> <<>>]

Init ==
    /\ \E pre \in PreComponents, post \in PostComponents,
          parameters \in CallerParameters :
          /\ heap = <<pre, post, parameters>>
          /\ original = [pre |-> pre, post |-> post, parameters |-> parameters]
          \* an empty dict argument is either None or an empty dict object
          /\ \E pre_none \in BOOLEAN, parameters_none \in BOOLEAN :
                /\ pre_none => pre = <<>>
                /\ parameters_none => parameters = <<>>
                /\ caller =
                     [pre_pipeline_components |->
                          IF pre_none THEN 0 ELSE PreRef,
                      post_pipelines_components |->
                          IF post = <<>> THEN 0 ELSE PostRef,
                      parameters |->
                          IF parameters_none THEN 0 ELSE ParametersRef]
    /\ \E input_pipelines \in PipelineLists(MaxPipelines),
          estimator \in Estimators, problem_type \in ProblemTypes,
          sub_pipeline_names \in SubPipelineNames :
          args = [input_pipelines |-> input_pipelines,
                  estimator |-> estimator,
                  problem_type |-> problem_type,
                  sub_pipeline_names |-> sub_pipeline_names]
    /\ entry = NoEntry
    /\ result = NoResult
    /\ ncalls = 0

\* The value behind a reference (None reads as the empty dict)
Deref(h, ref) == IF ref = 0 THEN <<>> ELSE h[ref]

Call ==
    /\ ncalls < MaxCalls
    /\ LET h == SubSeq(heap, 1, 3)   \* the previous pipeline is dropped
           a == [input_pipelines |-> args.input_pipelines,
                 estimator |-> args.estimator,
                 problem_type |-> args.problem_type,
                 sub_pipeline_names |-> args.sub_pipeline_names,
                 parameters |-> caller.parameters,
                 pre_pipeline_components |-> caller.pre_pipeline_components,
                 post_pipelines_components |-> caller.post_pipelines_components]
       IN  \E r \in {make_pipeline_from_multiple_graphs(h, a)} :
             /\ heap' = r.heap
             /\ entry' =
                  [pre |-> Deref(h, caller.pre_pipeline_components),
                   post |-> Deref(h, caller.post_pipelines_components),
                   parameters |-> Deref(h, caller.parameters)]
             /\ result' =
                  [status |-> r.status,
                   ref |-> r.component_graph,
                   component_graph |-> Deref(r.heap, r.component_graph),
                   parameters_ref |-> r.parameters,
                   parameters |-> Deref(r.heap, r.parameters)]
    /\ ncalls' = ncalls + 1
    /\ UNCHANGED <<caller, args, original>>

Next == Call

Spec == Init /\ [][Next]_vars

(***************************************************************************)
(* Vocabulary of the properties                                            *)
(***************************************************************************)
Returned == result.status = "ok"

Graph == result.component_graph

Classification == is_classification(args.problem_type)

NumPipelines == Len(args.input_pipelines)

NoDuplicates(list) ==
    \A i, j \in 1..Len(list) : i # j => list[i] # list[j]

\* The n-th input pipeline and the renaming scheme, written out from its
\* description
Pipeline(n) == args.input_pipelines[n]

\* How many of the first n input pipelines have the name of the n-th
Occurrence(n) ==
    Cardinality({m \in 1..n : Pipeline(m).name = Pipeline(n).name})

\* "<name or alias> Pipeline[ k] - <c>"
ExpectedKey(n, c) ==
    LET prefix == IF args.sub_pipeline_names = <<>>
                  THEN Pipeline(n).name
                  ELSE DictGet(args.sub_pipeline_names, Pipeline(n).name)
        suffix == IF Occurrence(n) = 1 THEN ""
                  ELSE " " \o ToString(Occurrence(n))
    IN  prefix \o " Pipeline" \o suffix \o " - " \o c

\* The nodes of the n-th input pipeline: positions in its component_dict
Nodes(n) == 1..Len(Pipeline(n).component_dict)

NodeName(n, i) == Pipeline(n).component_dict[i].k

NodeList(n, i) == Pipeline(n).component_dict[i].v

\* The entry of the merged graph for node i of pipeline n
Renamed(n, i) == DictGet(Graph, ExpectedKey(n, NodeName(n, i)))

\* The keys of the nodes every branch shares, in the order they are added
SharedKeys ==
    DictKeys(entry.pre)
        \o (IF Classification THEN <<"Label Encoder">> ELSE <<>>)
        \o DictKeys(entry.post) \o <<args.estimator>>

\* The keys the nodes of the input pipelines are renamed to
RenamedKeys ==
    UNION {{ExpectedKey(n, NodeName(n, i)) : i \in Nodes(n)} :
              n \in 1..NumPipelines}

\* The dict arguments are component graphs as a caller writes them: the shared
\* nodes have distinct keys, none of which is the new key of a renamed node.
WellFormedCall ==
    /\ NoDuplicates(SharedKeys)
    /\ \A i \in 1..Len(SharedKeys) : SharedKeys[i] \notin RenamedKeys

Assembled == Returned /\ WellFormedCall

RECURSIVE NodeCount(_)
NodeCount(pipelines) ==
    IF pipelines = <<>> THEN 0
    ELSE Len(pipelines[1].component_dict) + NodeCount(Tail(pipelines))

\* The position of a key in the graph (0 when absent)
Position(graph, key) ==
    IF HasKey(graph, key)
    THEN CHOOSE i \in 1..Len(graph) : graph[i].k = key
    ELSE 0

C2_OccurrenceSuffix ==
    Returned =>
        \A n \in 1..NumPipelines : \A i \in Nodes(n) :
            /\ HasKey(Graph, ExpectedKey(n, NodeName(n, i)))
            /\ WellFormedCall => Renamed(n, i)[1] = NodeList(n, i)[1]

C2_Witness ==
    /\ Assembled
    /\ NumPipelines = 2
    /\ Pipeline(1).name = Pipeline(2).name
    /\ Pipeline(1) # Pipeline(2)
    /\ HasKey(Graph, "Not Known In Advance Pipeline - Label Encoder")
    /\ HasKey(Graph, "Not Known In Advance Pipeline 2 - Imputer")

(***************************************************************************)
(* C3: in the merged graph every input reference of every node is a graph  *)
(* input ("X" or "y") or the ".x" or ".y" output of a node whose key was   *)
(* inserted strictly earlier: no dangling or forward reference, no cycle.  *)
(***************************************************************************)
RefersTo(ref, key) == ref = key \o ".x" \/ ref = key \o ".y"

C4_ReferencesRewritten ==
    Assembled =>
        \A n \in 1..NumPipelines : \A i \in Nodes(n) :
            /\ Len(Renamed(n, i)) = Len(NodeList(n, i))
            /\ Renamed(n, i)[1] = NodeList(n, i)[1]
            /\ \A j \in 2..Len(NodeList(n, i)) :
                 LET item == NodeList(n, i)[j]
                     new == Renamed(n, i)[j]
                 IN  /\ item = "y" =>
                           new = IF Classification
                                 THEN "Label Encoder.y" ELSE "y"
                     /\ \A m \in Nodes(n) :
                           /\ item = NodeName(n, m) \o ".x" =>
                                 new = ExpectedKey(n, NodeName(n, m)) \o ".x"
                           /\ item = NodeName(n, m) \o ".y" =>
                                 new = ExpectedKey(n, NodeName(n, m)) \o ".y"

C4_Witness ==
    /\ Assembled
    /\ NumPipelines = 2
    /\ Pipeline(1) = TargetImputed
    /\ Pipeline(2) = EncodedImputer
    /\ ~Classification
    /\ Renamed(1, 3) = <<"Target Imputer", "Aux Pipeline - Imputer.x",
                         "Aux Pipeline - One Hot Encoder.x", "y">>
    /\ Renamed(2, 2)[3] = "Base Pipeline - Label Encoder.y"

(***************************************************************************)
(* C5: with pre-components, in every input pipeline the first node in      *)
(* compute order (after a leading "Label Encoder") reads the ".x" of the   *)
(* last pre-component where it read "X", and every other "X" stays "X";    *)
(* without pre-components every "X" stays "X".                             *)
(***************************************************************************)
FirstXNode(n) ==
    IF Pipeline(n).compute_order[1] = "Label Encoder"
    THEN Pipeline(n).compute_order[2]
    ELSE Pipeline(n).compute_order[1]

C5_FirstNodeReadsPreComponents ==
    Assembled =>
        \A n \in 1..NumPipelines : \A i \in Nodes(n) :
            /\ \A j \in 2..Len(NodeList(n, i)) :
                 NodeList(n, i)[j] = "X" =>
                    Renamed(n, i)[j] =
                       IF entry.pre # <<>> /\ NodeName(n, i) = FirstXNode(n)
                       THEN Last(DictKeys(entry.pre)) \o ".x"
                       ELSE "X"
            /\ (entry.pre # <<>> /\ NodeName(n, i) = FirstXNode(n)) =>
                 \E j \in 2..Len(Renamed(n, i)) :
                    Renamed(n, i)[j] = Last(DictKeys(entry.pre)) \o ".x"

C5_Witness ==
    /\ Assembled
    /\ Len(entry.pre) = 2
    /\ NumPipelines = 2
    /\ Pipeline(1) = EncodedImputer
    /\ Pipeline(2) = TargetImputed
    /\ Renamed(1, 1)[2] = "X"
    /\ Renamed(1, 2)[2] = "Drop Columns Transformer.x"
    /\ Renamed(2, 1)[2] = "Drop Columns Transformer.x"
    /\ Renamed(2, 2)[2] = "X"

(***************************************************************************)
(* The wiring of the last nodes                                            *)
(***************************************************************************)
\* The renamed last node of the n-th input pipeline
FinalNode(n) ==
    ExpectedKey(n, NodeName(n, Len(Pipeline(n).component_dict)))

FinalXs == [n \in 1..NumPipelines |-> FinalNode(n) \o ".x"]

IsYReference(ref) == ref = "y" \/ EndsWith(ref, ".y")

EstimatorNode == DictGet(Graph, args.estimator)

FirstPostNode == DictGet(Graph, entry.post[1].k)

LastPostKey == entry.post[Len(entry.post)].k

\* The y reference the call resolved: the last input of the node that takes
\* the branches' outputs.
ResolvedY ==
    IF entry.post # <<>>
    THEN Last(FirstPostNode)
    ELSE Last(EstimatorNode)

\* The ".y" references among the inputs of the nodes of pipeline n, as
\* <<node, input>> positions
YReferences(n) ==
    LET inputs == UNION {{<<i, j>> : j \in 2..Len(NodeList(n, i))} :
                            i \in Nodes(n)}
    IN  {p \in inputs :
            /\ NodeList(n, p[1])[p[2]] \notin {"X", "y"}
            /\ EndsWith(NodeList(n, p[1])[p[2]], ".y")}

Before(p, q) == p[1] < q[1] \/ (p[1] = q[1] /\ p[2] <= q[2])

LastYReference(n) ==
    LET p == CHOOSE q \in YReferences(n) : \A r \in YReferences(n) : Before(r, q)
    IN  ExpectedKey(n, NodeList(n, p[1])[p[2]])

LastNodeModifiesTarget(n) ==
    Last(Pipeline(n).compute_order) \in TargetModifiers

(***************************************************************************)
(* C6: without post-components the final estimator is the last key of the  *)
(* graph; its inputs are the ".x" of the renamed last node of every input  *)
(* pipeline, in input order, followed by one y reference.                  *)
(***************************************************************************)
C6_EstimatorTakesEveryBranch ==
    (Assembled /\ entry.post = <<>>) =>
        /\ Graph[Len(Graph)].k = args.estimator
        /\ Len(EstimatorNode) = NumPipelines + 2
        /\ EstimatorNode[1] = args.estimator
        /\ SubSeq(EstimatorNode, 2, NumPipelines + 1) = FinalXs
        /\ IsYReference(Last(EstimatorNode))

C6_Witness ==
    /\ Assembled
    /\ entry.post = <<>>
    /\ NumPipelines = 2
    /\ Pipeline(1) = TargetImputed
    /\ Pipeline(2) = ImputerOnly
    /\ args.sub_pipeline_names = <<>>
    /\ EstimatorNode = <<args.estimator, "Aux Pipeline - Target Imputer.x",
                         "Base Pipeline - Imputer.x", "y">>

(***************************************************************************)
(* C7, as claimed: with post-components the first of them takes the ".x"   *)
(* of every branch's last node and the resolved y, the post-components     *)
(* follow every input pipeline's nodes, and the final estimator takes the  *)
(* ".x" of the last post-component and that same resolved y.               *)
(***************************************************************************)
PostWiring ==
    /\ Len(FirstPostNode) = NumPipelines + 2
    /\ SubSeq(FirstPostNode, 2, NumPipelines + 1) = FinalXs
    /\ IsYReference(Last(FirstPostNode))
    /\ \A q \in 1..Len(entry.post) : \A n \in 1..NumPipelines :
          \A i \in Nodes(n) :
             Position(Graph, ExpectedKey(n, NodeName(n, i)))
                 < Position(Graph, entry.post[q].k)

C7_EstimatorTakesResolvedY ==
    (Assembled /\ entry.post # <<>>) =>
        /\ PostWiring
        /\ EstimatorNode =
             <<args.estimator, LastPostKey \o ".x", Last(FirstPostNode)>>

(***************************************************************************)
(* C7, amended: as above, but the final estimator takes the ".x" and the   *)
(* ".y" of the last post-component.                                        *)
(***************************************************************************)
C7_EstimatorTakesLastPostComponent ==
    (Assembled /\ entry.post # <<>>) =>
        /\ PostWiring
        /\ EstimatorNode =
             <<args.estimator, LastPostKey \o ".x", LastPostKey \o ".y">>

C7_Witness ==
    /\ Assembled
    /\ Len(entry.post) = 2
    /\ NumPipelines = 2
    /\ Pipeline(2) = TargetImputed
    /\ Last(FirstPostNode) = FinalNode(2) \o ".y"
    /\ EstimatorNode[3] = "Select Columns Transformer.y"

(***************************************************************************)
(* C8, as claimed: the resolved y comes from the last input pipeline only: *)
(* it is the ".y" of that pipeline's renamed last node when that node's    *)
(* component modifies the target, and the graph input "y" otherwise.       *)
(***************************************************************************)
C8_ResolvedYDefaultsToInput ==
    Assembled =>
        ResolvedY =
            IF LastNodeModifiesTarget(NumPipelines)
            THEN ExpectedKey(NumPipelines,
                             Last(Pipeline(NumPipelines).compute_order)) \o ".y"
            ELSE "y"

(***************************************************************************)
(* C8, amended: ... and otherwise it is the renamed last ".y" reference    *)
(* found among the inputs of that pipeline's nodes, or the graph input "y" *)
(* when its nodes hold no ".y" reference.                                  *)
(***************************************************************************)
C8_ResolvedYFromLastPipeline ==
    Assembled =>
        ResolvedY =
            IF LastNodeModifiesTarget(NumPipelines)
            THEN ExpectedKey(NumPipelines,
                             Last(Pipeline(NumPipelines).compute_order)) \o ".y"
            ELSE IF YReferences(NumPipelines) # {}
            THEN LastYReference(NumPipelines)
            ELSE "y"

C8_Witness ==
    /\ Assembled
    /\ NumPipelines = 2
    /\ Pipeline(1) = TargetImputed
    /\ Pipeline(2) = EncodedImputer
    /\ args.sub_pipeline_names = <<>>
    /\ ResolvedY = "Base Pipeline - Label Encoder.y"

(***************************************************************************)
(* C9: the caller's parameters dict is never modified, however often the   *)
(* function is called with it; the pipeline is given another dict, which   *)
(* holds the caller's entries and one entry per renamed node.              *)
(***************************************************************************)
C9_CallerParametersUntouched ==
    ncalls >= 1 =>
        /\ heap[ParametersRef] = original.parameters
        /\ Returned =>
             /\ result.parameters_ref # caller.parameters
             /\ \A n \in 1..NumPipelines : \A i \in Nodes(n) :
                   /\ HasKey(result.parameters, ExpectedKey(n, NodeName(n, i)))
                   /\ WellFormedCall =>
                        DictGet(result.parameters,
                                ExpectedKey(n, NodeName(n, i)))
                          = DictGetOrEmpty(Pipeline(n).parameters,
                                           NodeName(n, i))
             /\ \A q \in 1..Len(original.parameters) :
                   /\ HasKey(result.parameters, original.parameters[q].k)
                   /\ (\A n \in 1..NumPipelines : \A i \in Nodes(n) :
                          original.parameters[q].k
                              # ExpectedKey(n, NodeName(n, i)))
                      => DictGet(result.parameters, original.parameters[q].k)
                           = original.parameters[q].v

C9_Witness ==
    /\ ncalls = 2
    /\ Returned
    /\ caller.parameters = ParametersRef
    /\ original.parameters # <<>>
    /\ DictGet(heap[ParametersRef], "Base Pipeline - Imputer")
         # DictGet(result.parameters, "Base Pipeline - Imputer")

(***************************************************************************)
(* C10, as claimed: a call leaves the caller's pre_pipeline_components and *)
(* post_pipelines_components dicts as they were (no key added, no entry    *)
(* rewritten), so a later call with the same dicts is given what the       *)
(* caller built and returns the graph a first call returns.                *)
(***************************************************************************)
GraphOfFirstCall ==
    LET r == make_pipeline_from_multiple_graphs(
                 <<original.pre, original.post, original.parameters>>,
                 [input_pipelines |-> args.input_pipelines,
                  estimator |-> args.estimator,
                  problem_type |-> args.problem_type,
                  sub_pipeline_names |-> args.sub_pipeline_names,
                  parameters |-> caller.parameters,
                  pre_pipeline_components |-> caller.pre_pipeline_components,
                  post_pipelines_components |->
                      caller.post_pipelines_components])
    IN  Deref(r.heap, r.component_graph)

C10_CallerGraphsUntouched ==
    Returned =>
        /\ heap[PreRef] = original.pre
        /\ heap[PostRef] = original.post
        /\ entry.pre = original.pre
        /\ entry.post = original.post
        /\ Graph = GraphOfFirstCall

(***************************************************************************)
(* C11, as claimed: the call accepts exactly the problem types of the      *)
(* enumeration: for each of the seven the pipeline-class lookup succeeds   *)
(* and a pipeline is returned, and for any other the call fails with a     *)
(* lookup error and returns no pipeline.                                   *)
(***************************************************************************)
C11_EveryProblemTypeAccepted ==
    (ncalls >= 1 /\ args.input_pipelines # <<>>) =>
        IF args.problem_type \in ProblemTypes
        THEN Returned
        ELSE result.status = "KeyError" /\ result.ref = 0

(***************************************************************************)
(* C12, as claimed: when a key the call is about to add (the shared        *)
(* "Label Encoder", a renamed node, a post-component, the estimator) is    *)
(* already in the graph, the call fails: it returns no pipeline.           *)
(***************************************************************************)
\* Some key is added to a graph that already holds it: the call makes more
\* insertions than there are distinct keys.
KeyCollision ==
    Len(SharedKeys) + NodeCount(args.input_pipelines)
        > Cardinality({SharedKeys[i] : i \in 1..Len(SharedKeys)}
                          \cup RenamedKeys)

C12_CollisionFails ==
    (ncalls >= 1 /\ KeyCollision) => ~Returned

(***************************************************************************)
(* _get_preprocessing_components                                           *)
(*                                                                         *)
(* X is described by what the rules read of it: the logical types of its   *)
(* columns, whether a column that is neither index nor unknown is entirely *)
(* null, the frequency of its time index and the seasonal period the       *)
(* decomposer determines for it.  Components and rule functions are named  *)
(* as in the source.                                                       *)
(***************************************************************************)
\* Collaborators that live outside utils.py
is_time_series(problem_type) ==
    problem_type \in {"time series regression", "time series binary",
                      "time series multiclass",
                      "multiseries time series regression"}

is_regression(problem_type) ==
    problem_type \in {"regression", "time series regression",
                      "multiseries time series regression"}

is_multiseries(problem_type) ==
    problem_type = "multiseries time series regression"

model_family(estimator_class) ==
    CASE estimator_class = "RandomForestClassifier" -> "RANDOM_FOREST"
      [] estimator_class = "LogisticRegressionClassifier" -> "LINEAR_MODEL"
      [] estimator_class = "CatBoostClassifier" -> "CATBOOST"
      [] estimator_class = "ARIMARegressor" -> "ARIMA"
      [] estimator_class = "RandomForestRegressor" -> "RANDOM_FOREST"
      [] estimator_class = "VARMAXRegressor" -> "VARMAX"

estimator_unable_to_handle_nans(estimator_class) ==
    model_family(estimator_class) \in
        {"EXTRA_TREES", "RANDOM_FOREST", "LINEAR_MODEL", "DECISION_TREE"}

\* The standard semantic tags of a logical type
standard_tags(logical_type) ==
    IF logical_type \in {"Categorical", "Ordinal"} THEN {"category"} ELSE {}

\* X.ww.select(selection): the logical types of the columns selected by
\* logical type or by semantic tag
ww_select(X, selection) ==
    {t \in X.logical_types :
        t \in selection \/ standard_tags(t) \cap selection # {}}

\* STLDecomposer.is_freq_valid
is_freq_valid(freq) == freq \in {"D", "Q"}

\* seasonal_period is None
NoPeriod == 0

\* STLDecomposer.determine_periodicity(X, y, rel_max_order=order)
determine_periodicity(X, order) == X.seasonal_period

DECOMPOSER_PERIOD_CAP == 1000

\* Faulty variant: the label encoder is added whatever the problem type.
get_label_encoder_unconditional(X, problem_type, estimator_class, sampler_name) ==
    <<"LabelEncoder">>

\* The rules.  Each returns the list of components it adds.
get_label_encoder(X, problem_type, estimator_class, sampler_name) ==
    IF is_classification(problem_type) THEN <<"LabelEncoder">> ELSE <<>>

get_drop_all_null(X, problem_type, estimator_class, sampler_name) ==
    IF X.all_null_cols THEN <<"DropNullColumns">> ELSE <<>>

get_drop_index_unknown(X, problem_type, estimator_class, sampler_name) ==
    IF ww_select(X, {"index", "Unknown"}) # {}
    THEN <<"DropColumns">> ELSE <<>>

get_email(X, problem_type, estimator_class, sampler_name) ==
    IF ww_select(X, {"EmailAddress"}) # {}
    THEN <<"EmailFeaturizer">> ELSE <<>>

get_url(X, problem_type, estimator_class, sampler_name) ==
    IF ww_select(X, {"URL"}) # {} THEN <<"URLFeaturizer">> ELSE <<>>

get_datetime(X, problem_type, estimator_class, sampler_name) ==
    IF /\ ww_select(X, {"Datetime"}) # {}
       /\ model_family(estimator_class) \notin {"ARIMA", "PROPHET"}
    THEN <<"DateTimeFeaturizer">> ELSE <<>>

get_natural_language(X, problem_type, estimator_class, sampler_name) ==
    IF ww_select(X, {"NaturalLanguage"}) # {}
    THEN <<"NaturalLanguageFeaturizer">> ELSE <<>>

types_imputer_handles ==
    {"AgeNullable", "Boolean", "BooleanNullable", "Categorical", "Double",
     "Integer", "IntegerNullable", "URL", "EmailAddress", "Datetime"}

get_imputer(X, problem_type, estimator_class, sampler_name) ==
    IF \/ X.logical_types \cap types_imputer_handles # {}
       \/ ww_select(X, {"NaturalLanguage"}) # {}
    THEN <<"Imputer">> ELSE <<>>

get_ohe(X, problem_type, estimator_class, sampler_name) ==
    IF /\ ww_select(X, {"category", "URL", "EmailAddress"}) # {}
       /\ estimator_class \notin {"CatBoostClassifier", "CatBoostRegressor"}
    THEN <<"OneHotEncoder">> ELSE <<>>

get_ordinal_encoder(X, problem_type, estimator_class, sampler_name) ==
    IF ww_select(X, {"Ordinal"}) # {} THEN <<"OrdinalEncoder">> ELSE <<>>

sampler_components ==
    <<Entry("Undersampler", "Undersampler"),
      Entry("Oversampler", "Oversampler")>>

\* Faulty variant: a sampler is added for classification problems only.
get_sampler_for_classification(X, problem_type, estimator_class, sampler_name) ==
    IF sampler_name # "" /\ is_classification(problem_type)
    THEN <<DictGet(sampler_components, sampler_name)>>
    ELSE <<>>

\* sampler_name "" is None
get_sampler(X, problem_type, estimator_class, sampler_name) ==
    IF sampler_name # ""
    THEN <<DictGet(sampler_components, sampler_name)>>
    ELSE <<>>

\* estimator_class "" is None
get_standard_scaler(X, problem_type, estimator_class, sampler_name) ==
    IF estimator_class # "" /\ model_family(estimator_class) = "LINEAR_MODEL"
    THEN <<"StandardScaler">> ELSE <<>>

get_time_series_featurizer(X, problem_type, estimator_class, sampler_name) ==
    IF is_time_series(problem_type)
    THEN <<"TimeSeriesFeaturizer">> ELSE <<>>

\* Faulty variant: the seasonal period is not held against the cap.
get_decomposer_uncapped(X, problem_type, estimator_class, sampler_name) ==
    IF ~(is_time_series(problem_type) /\ is_regression(problem_type))
    THEN <<>>
    ELSE IF is_multiseries(problem_type) THEN <<"STLDecomposer">>
    ELSE IF X.freq = "" THEN <<>>
    ELSE IF ~is_freq_valid(X.freq) THEN <<>>
    ELSE IF determine_periodicity(X, IF X.freq = "Q" THEN 3 ELSE 5) # NoPeriod
    THEN <<"STLDecomposer">>
    ELSE <<>>

\* X.freq is the name of the frequency of the time index, "" when the
\* frequency cannot be inferred
get_decomposer(X, problem_type, estimator_class, sampler_name) ==
    IF ~(is_time_series(problem_type) /\ is_regression(problem_type))
    THEN <<>>
    ELSE IF is_multiseries(problem_type) THEN <<"STLDecomposer">>
    ELSE IF X.freq = "" THEN <<>>
    ELSE IF ~is_freq_valid(X.freq) THEN <<>>
    ELSE LET order == IF X.freq = "Q" THEN 3 ELSE 5
             seasonal_period == determine_periodicity(X, order)
         IN  IF /\ seasonal_period # NoPeriod
                /\ seasonal_period <= DECOMPOSER_PERIOD_CAP
             THEN <<"STLDecomposer">>
             ELSE <<>>

get_drop_nan_rows_transformer(X, problem_type, estimator_class, sampler_name) ==
    IF /\ is_time_series(problem_type)
       /\ (estimator_unable_to_handle_nans(estimator_class)
              \/ sampler_name # "")
    THEN <<"DropNaNRowsTransformer">> ELSE <<>>

\* function(X, y, problem_type, estimator_class, sampler_name)
call_function(function, X, problem_type, estimator_class, sampler_name) ==
    CASE function = "_get_label_encoder" ->
           get_label_encoder(X, problem_type, estimator_class, sampler_name)
      [] function = "_get_drop_all_null" ->
           get_drop_all_null(X, problem_type, estimator_class, sampler_name)
      [] function = "_get_drop_index_unknown" ->
           get_drop_index_unknown(X, problem_type, estimator_class,
                                  sampler_name)
      [] function = "_get_url" ->
           get_url(X, problem_type, estimator_class, sampler_name)
      [] function = "_get_email" ->
           get_email(X, problem_type, estimator_class, sampler_name)
      [] function = "_get_datetime" ->
           get_datetime(X, problem_type, estimator_class, sampler_name)
      [] function = "_get_natural_language" ->
           get_natural_language(X, problem_type, estimator_class,
                                sampler_name)
      [] function = "_get_imputer" ->
           get_imputer(X, problem_type, estimator_class, sampler_name)
      [] function = "_get_ordinal_encoder" ->
           get_ordinal_encoder(X, problem_type, estimator_class, sampler_name)
      [] function = "_get_ohe" ->
           get_ohe(X, problem_type, estimator_class, sampler_name)
      [] function = "_get_sampler" ->
           get_sampler(X, problem_type, estimator_class, sampler_name)
      [] function = "_get_standard_scaler" ->
           get_standard_scaler(X, problem_type, estimator_class, sampler_name)
      [] function = "_get_time_series_featurizer" ->
           get_time_series_featurizer(X, problem_type, estimator_class,
                                      sampler_name)
      [] function = "_get_decomposer" ->
           get_decomposer(X, problem_type, estimator_class, sampler_name)
      [] function = "_get_drop_nan_rows_transformer" ->
           get_drop_nan_rows_transformer(X, problem_type, estimator_class,
                                         sampler_name)

\* The call of a rule raises: sampler_components has no such key
function_raises(function, sampler_name) ==
    /\ function = "_get_sampler"
    /\ sampler_name # ""
    /\ ~HasKey(sampler_components, sampler_name)

\* item in list
In(item, list) == \E i \in 1..Len(list) : list[i] = item

\* Faulty variant: the standard scaler is placed before the sampler.
components_functions_scaler_first(problem_type, include_decomposer) ==
    IF is_multiseries(problem_type)
    THEN <<"_get_decomposer">>
    ELSE IF is_time_series(problem_type)
    THEN <<"_get_label_encoder", "_get_drop_all_null",
           "_get_drop_index_unknown", "_get_url", "_get_email",
           "_get_natural_language", "_get_imputer",
           "_get_time_series_featurizer">>
         \o (IF include_decomposer THEN <<"_get_decomposer">> ELSE <<>>)
         \o <<"_get_datetime", "_get_ordinal_encoder", "_get_ohe",
              "_get_drop_nan_rows_transformer", "_get_standard_scaler",
              "_get_sampler">>
    ELSE <<"_get_label_encoder", "_get_drop_all_null",
           "_get_drop_index_unknown", "_get_url", "_get_email",
           "_get_datetime", "_get_natural_language", "_get_imputer",
           "_get_ordinal_encoder", "_get_ohe", "_get_standard_scaler",
           "_get_sampler">>

\* components_functions of a call that does not return at once
components_functions(problem_type, include_decomposer) ==
    IF is_multiseries(problem_type)
    THEN <<"_get_decomposer">>
    ELSE IF is_time_series(problem_type)
    THEN <<"_get_label_encoder", "_get_drop_all_null",
           "_get_drop_index_unknown", "_get_url", "_get_email",
           "_get_natural_language", "_get_imputer",
           "_get_time_series_featurizer">>
         \o (IF include_decomposer THEN <<"_get_decomposer">> ELSE <<>>)
         \o <<"_get_datetime", "_get_ordinal_encoder", "_get_ohe",
              "_get_drop_nan_rows_transformer", "_get_sampler",
              "_get_standard_scaler">>
    ELSE <<"_get_label_encoder", "_get_drop_all_null",
           "_get_drop_index_unknown", "_get_url", "_get_email",
           "_get_datetime", "_get_natural_language", "_get_imputer",
           "_get_ordinal_encoder", "_get_ohe", "_get_sampler",
           "_get_standard_scaler">>

\* Faulty variant: excluding the natural language featurizer also excludes
\* the imputer.
functions_to_exclude_with_imputer(exclude_featurizers) ==
    (IF In("DatetimeFeaturizer", exclude_featurizers)
     THEN <<"_get_datetime">> ELSE <<>>)
    \o (IF In("EmailFeaturizer", exclude_featurizers)
        THEN <<"_get_email">> ELSE <<>>)
    \o (IF In("URLFeaturizer", exclude_featurizers)
        THEN <<"_get_url">> ELSE <<>>)
    \o (IF In("NaturalLanguageFeaturizer", exclude_featurizers)
        THEN <<"_get_natural_language", "_get_imputer">> ELSE <<>>)
    \o (IF In("TimeSeriesFeaturizer", exclude_featurizers)
        THEN <<"_get_time_series_featurizer">> ELSE <<>>)

\* exclude_featurizers is the list (None reads as the empty list)
functions_to_exclude(exclude_featurizers) ==
    (IF In("DatetimeFeaturizer", exclude_featurizers)
     THEN <<"_get_datetime">> ELSE <<>>)
    \o (IF In("EmailFeaturizer", exclude_featurizers)
        THEN <<"_get_email">> ELSE <<>>)
    \o (IF In("URLFeaturizer", exclude_featurizers)
        THEN <<"_get_url">> ELSE <<>>)
    \o (IF In("NaturalLanguageFeaturizer", exclude_featurizers)
        THEN <<"_get_natural_language">> ELSE <<>>)
    \o (IF In("TimeSeriesFeaturizer", exclude_featurizers)
        THEN <<"_get_time_series_featurizer">> ELSE <<>>)

\* The loop over components_functions, from function n.
\* st = [status, components]
RECURSIVE extend_components(_, _, _, _, _)
extend_components(functions, excluded, a, n, st) ==
    IF n > Len(functions) THEN st
    ELSE IF In(functions[n], excluded)
    THEN extend_components(functions, excluded, a, n + 1, st)
    ELSE IF function_raises(functions[n], a.sampler_name)
    THEN [status |-> "KeyError", components |-> <<>>]
    ELSE extend_components(functions, excluded, a, n + 1,
            [status |-> "ok",
             components |->
                 st.components
                     \o call_function(functions[n], a.X, a.problem_type,
                                      a.estimator_class, a.sampler_name)])

\* Faulty variant: the exclusions that were applied are taken off the
\* caller's list.
exclude_featurizers_after_consumed(exclude_featurizers) ==
    IF exclude_featurizers = <<>> THEN <<>> ELSE Tail(exclude_featurizers)

\* The caller's exclude_featurizers list after the call: it is only read.
exclude_featurizers_after(exclude_featurizers) == exclude_featurizers

\* The whole function.  a = [X, problem_type, estimator_class, sampler_name,
\* exclude_featurizers, include_decomposer], exclude_featurizers by reference
\* (0 is None).  Returns [status, heap, components].
get_preprocessing_components(h, a) ==
    LET exclude_featurizers ==
            IF a.exclude_featurizers = 0 THEN <<>>
            ELSE h[a.exclude_featurizers]
        done ==
            IF is_multiseries(a.problem_type) /\ ~a.include_decomposer
            THEN [status |-> "ok", components |-> <<>>]
            ELSE extend_components(
                     components_functions(a.problem_type,
                                          a.include_decomposer),
                     functions_to_exclude(exclude_featurizers), a, 1,
                     [status |-> "ok", components |-> <<>>])
    IN  [status |-> done.status,
         heap |-> IF a.exclude_featurizers = 0 THEN h
                  ELSE [h EXCEPT ![a.exclude_featurizers] =
                           exclude_featurizers_after(exclude_featurizers)],
         components |-> done.components]

(***************************************************************************)
(* The callers' inputs of _get_preprocessing_components                    *)
(***************************************************************************)
LogicalTypes ==
    {"Unknown", "EmailAddress", "URL", "Datetime", "NaturalLanguage",
     "Categorical", "Ordinal", "Double"}

\* The columns of X all have one logical type, or there is a column of every
\* logical type, or X has no column
ColumnTypes == {{}, LogicalTypes} \cup {{t} : t \in LogicalTypes}

\* (frequency of the time index, seasonal period)
TimeIndexes ==
    {<<"", 1000>>, <<"N", 1000>>, <<"D", NoPeriod>>, <<"D", 1000>>,
     <<"D", 1001>>, <<"Q", 1000>>}

\* An entirely null column, where there is one, is a Double column
Schemas ==
    {[logical_types |-> types, all_null_cols |-> all_null,
      freq |-> time_index[1], seasonal_period |-> time_index[2]] :
        types \in ColumnTypes,
        all_null \in BOOLEAN,
        time_index \in TimeIndexes}

EstimatorClasses ==
    {"RandomForestClassifier", "LogisticRegressionClassifier",
     "CatBoostClassifier", "ARIMARegressor"}

\* "" is None; "SMOTE" names no sampler
SamplerNames == {"", "Undersampler", "Oversampler", "SMOTE"}

FeaturizerNames ==
    <<"DatetimeFeaturizer", "EmailFeaturizer", "URLFeaturizer",
      "NaturalLanguageFeaturizer", "TimeSeriesFeaturizer">>

\* exclude_featurizers: None (the empty list here), valid options, or names
\* that are no valid option
ExcludeLists ==
    {<<>>, <<"URLFeaturizer">>, FeaturizerNames,
     <<"DateTimeFeaturizer", "Imputer">>}

\* The slot of the caller's exclude_featurizers list
ExcludeRef == 1

(***************************************************************************)
(* The state machine of a caller that keeps its arguments and calls        *)
(* _get_preprocessing_components with them, again and again.               *)
(***************************************************************************)
NoComponents == [status |-> "none", components |-> <<>>]

SelectorInit ==
    /\ \E exclude_featurizers \in ExcludeLists :
          /\ heap = <<exclude_featurizers>>
          /\ original = [exclude_featurizers |-> exclude_featurizers]
          /\ caller = [exclude_featurizers |->
                          IF exclude_featurizers = <<>> THEN 0
                          ELSE ExcludeRef]
    /\ \E X \in Schemas, problem_type \in ProblemTypes,
          estimator_class \in EstimatorClasses,
          sampler_name \in SamplerNames, include_decomposer \in BOOLEAN :
          /\ X.all_null_cols => "Double" \in X.logical_types
          /\ args = [X |-> X, problem_type |-> problem_type,
                     estimator_class |-> estimator_class,
                     sampler_name |-> sampler_name,
                     include_decomposer |-> include_decomposer]
    /\ entry = [exclude_featurizers |-> <<>>, previous |-> NoComponents]
    /\ result = NoComponents
    /\ ncalls = 0

\* The arguments of a call, with the given exclude_featurizers reference
SelectorArguments(exclude_featurizers) ==
    [X |-> args.X, problem_type |-> args.problem_type,
     estimator_class |-> args.estimator_class,
     sampler_name |-> args.sampler_name,
     exclude_featurizers |-> exclude_featurizers,
     include_decomposer |-> args.include_decomposer]

Select ==
    /\ ncalls < MaxCalls
    /\ \E r \in {get_preprocessing_components(
                     heap, SelectorArguments(caller.exclude_featurizers))} :
          /\ heap' = r.heap
          /\ entry' = [exclude_featurizers |-> heap[ExcludeRef],
                       previous |-> result]
          /\ result' = [status |-> r.status, components |-> r.components]
    /\ ncalls' = ncalls + 1
    /\ UNCHANGED <<caller, args, original>>

SelectorNext == Select

SelectorSpec == SelectorInit /\ [][SelectorNext]_vars

(***************************************************************************)
(* Vocabulary of the properties of _get_preprocessing_components           *)
(***************************************************************************)
Selected == result.status = "ok"

Components == result.components

\* The positions of a component in a list
Positions(list, component) == {i \in 1..Len(list) : list[i] = component}

Samplers == {"Undersampler", "Oversampler"}

HasSampler == \E i \in 1..Len(Components) : Components[i] \in Samplers

\* The list without a component
RECURSIVE Without(_, _)
Without(list, component) ==
    IF list = <<>> THEN <<>>
    ELSE IF list[1] = component THEN Without(Tail(list), component)
    ELSE <<list[1]>> \o Without(Tail(list), component)

\* list is `order` with some of its elements left out
RECURSIVE IsSubsequence(_, _)
IsSubsequence(list, order) ==
    IF list = <<>> THEN TRUE
    ELSE IF order = <<>> THEN FALSE
    ELSE IF list[1] = order[1] THEN IsSubsequence(Tail(list), Tail(order))
    ELSE IsSubsequence(list, Tail(order))

\* What a call with the caller's arguments and the given exclude_featurizers
\* list returns
SelectionWith(exclude_featurizers) ==
    get_preprocessing_components(<<exclude_featurizers>>,
                                 SelectorArguments(ExcludeRef))

C14_SamplerOnlyForClassification ==
    Selected =>
        (HasSampler <=>
            (args.sampler_name # "" /\ is_classification(args.problem_type)))

(***************************************************************************)
(* C14, amended: a sampler is in the output if and only if a sampler name  *)
(* (Undersampler or Oversampler) is given and the problem type is not      *)
(* multiseries, classification or not; the sampler is the one named and    *)
(* occurs once; for the multiseries problem type no sampler is ever        *)
(* included.                                                               *)
(***************************************************************************)
C14_SamplerUnlessMultiseries ==
    Selected =>
        /\ HasSampler <=>
              (args.sampler_name # "" /\ ~is_multiseries(args.problem_type))
        /\ HasSampler =>
              /\ args.sampler_name \in Samplers
              /\ Cardinality(Positions(Components, args.sampler_name)) = 1
              /\ \A i \in 1..Len(Components) :
                    Components[i] \in Samplers
                        => Components[i] = args.sampler_name

C14_Witness ==
    /\ Selected
    /\ args.problem_type = "regression"
    /\ args.sampler_name = "Oversampler"
    /\ In("Oversampler", Components)
    /\ ~In("Undersampler", Components)

(***************************************************************************)
(* C15, as claimed: the STLDecomposer is in the output only if the problem *)
(* type is time series regression and not multiseries, include_decomposer  *)
(* is true, the time index has an inferable frequency that the decomposer  *)
(* accepts, and the seasonal period is not None and at most 1000.          *)
(***************************************************************************)
SeasonalTimeIndex ==
    /\ args.X.freq # ""
    /\ is_freq_valid(args.X.freq)
    /\ args.X.seasonal_period # NoPeriod
    /\ args.X.seasonal_period <= 1000

C15_DecomposerNeverForMultiseries ==
    (Selected /\ In("STLDecomposer", Components)) =>
        /\ args.problem_type = "time series regression"
        /\ args.include_decomposer
        /\ SeasonalTimeIndex

(***************************************************************************)
(* C15, amended: the STLDecomposer is in the output only if                *)
(* include_decomposer is true and either the problem type is multiseries   *)
(* time series regression, or it is time series regression and the time    *)
(* index has an inferable frequency that the decomposer accepts and the    *)
(* seasonal period is not None and at most 1000; in every other case the   *)
(* output contains no decomposer.                                          *)
(***************************************************************************)
C15_DecomposerConditions ==
    (Selected /\ In("STLDecomposer", Components)) =>
        /\ args.include_decomposer
        /\ \/ args.problem_type = "multiseries time series regression"
           \/ /\ args.problem_type = "time series regression"
              /\ SeasonalTimeIndex

C15_Witness ==
    /\ Selected
    /\ args.problem_type = "multiseries time series regression"
    /\ args.include_decomposer
    /\ args.X.freq = ""
    /\ Components = <<"STLDecomposer">>

(***************************************************************************)
(* The order of the components in the output                               *)
(***************************************************************************)
\* The position of a component in the output (0 when absent)
Place(component) ==
    IF In(component, Components)
    THEN CHOOSE i \in 1..Len(Components) : Components[i] = component
    ELSE 0

\* Both are in the output, the first before the second
Precedes(first, second) ==
    /\ In(first, Components)
    /\ In(second, Components)
    /\ Place(first) < Place(second)

\* Where both are in the output, the first is before the second
Ordered(first, second) ==
    (In(first, Components) /\ In(second, Components))
        => Place(first) < Place(second)

Featurizers ==
    {"URLFeaturizer", "EmailFeaturizer", "DateTimeFeaturizer",
     "NaturalLanguageFeaturizer", "TimeSeriesFeaturizer"}

\* What the call returns for another problem type, all else equal
SelectionFor(problem_type) ==
    get_preprocessing_components(
        heap, [SelectorArguments(caller.exclude_featurizers)
                  EXCEPT !.problem_type = problem_type])

\* The elements of a list that are in a set, in the order of the list
RECURSIVE Keep(_, _)
Keep(list, set) ==
    IF list = <<>> THEN <<>>
    ELSE IF list[1] \in set THEN <<list[1]>> \o Keep(Tail(list), set)
    ELSE Keep(Tail(list), set)

Elements(list) == {list[i] : i \in 1..Len(list)}

\* Two outputs agree on the order of the components they share
SameOrder(list, other) ==
    Keep(list, Elements(other)) = Keep(other, Elements(list))

(***************************************************************************)
(* C16, as claimed: in every output the Imputer comes after every          *)
(* featurizer that is present (URL, email, datetime, natural language,     *)
(* time series), the StandardScaler comes before the sampler, and any two  *)
(* components are in the same relative order in every output that holds    *)
(* both.                                                                   *)
(***************************************************************************)
C16_ImputerLastScalerBeforeSampler ==
    Selected =>
        /\ \A f \in Featurizers : Ordered(f, "Imputer")
        /\ \A sampler \in Samplers : Ordered("StandardScaler", sampler)
        /\ \A problem_type \in ProblemTypes :
              \E other \in {SelectionFor(problem_type)} :
                 other.status = "ok"
                     => SameOrder(Components, other.components)

(***************************************************************************)
(* C16, amended: the Imputer comes after the URL, email and natural        *)
(* language featurizers for every problem type and after the datetime      *)
(* featurizer for the problem types that are not time series; for a time   *)
(* series problem type the time series featurizer and the datetime         *)
(* featurizer come after the Imputer; the StandardScaler comes after the   *)
(* sampler; and the output follows one fixed order for the time series     *)
(* problem types and one for the others, so two components are in the same *)
(* relative order in every output of the same of the two families.         *)
(***************************************************************************)
TimeSeriesOrder ==
    <<"LabelEncoder", "DropNullColumns", "DropColumns", "URLFeaturizer",
      "EmailFeaturizer", "NaturalLanguageFeaturizer", "Imputer",
      "TimeSeriesFeaturizer", "STLDecomposer", "DateTimeFeaturizer",
      "OrdinalEncoder", "OneHotEncoder", "DropNaNRowsTransformer",
      "Undersampler", "Oversampler", "StandardScaler">>

OtherOrder ==
    <<"LabelEncoder", "DropNullColumns", "DropColumns", "URLFeaturizer",
      "EmailFeaturizer", "DateTimeFeaturizer", "NaturalLanguageFeaturizer",
      "Imputer", "OrdinalEncoder", "OneHotEncoder", "Undersampler",
      "Oversampler", "StandardScaler">>

TimeSeries ==
    args.problem_type \in
        {"time series binary", "time series multiclass",
         "time series regression", "multiseries time series regression"}

C16_OrderPerFamily ==
    Selected =>
        /\ \A f \in {"URLFeaturizer", "EmailFeaturizer",
                     "NaturalLanguageFeaturizer"} : Ordered(f, "Imputer")
        /\ ~TimeSeries => Ordered("DateTimeFeaturizer", "Imputer")
        /\ TimeSeries =>
              /\ Ordered("Imputer", "TimeSeriesFeaturizer")
              /\ Ordered("Imputer", "DateTimeFeaturizer")
        /\ \A sampler \in Samplers : Ordered(sampler, "StandardScaler")
        /\ IsSubsequence(Components,
                         IF TimeSeries THEN TimeSeriesOrder ELSE OtherOrder)
        /\ \A problem_type \in ProblemTypes :
              (is_time_series(problem_type) <=> TimeSeries) =>
                 \E other \in {SelectionFor(problem_type)} :
                    other.status = "ok"
                        => SameOrder(Components, other.components)

C16_Witness ==
    /\ Selected
    /\ args.problem_type = "time series binary"
    /\ Precedes("URLFeaturizer", "Imputer")
    /\ Precedes("Imputer", "TimeSeriesFeaturizer")
    /\ Precedes("TimeSeriesFeaturizer", "DateTimeFeaturizer")
    /\ Precedes("DropNaNRowsTransformer", "Oversampler")
    /\ Precedes("Oversampler", "StandardScaler")
    /\ ~SameOrder(Components, SelectionFor("binary").components)

(***************************************************************************)
(* C17: for every classification problem type the first element of the     *)
(* returned list is the LabelEncoder, it occurs exactly once and so comes  *)
(* before any sampler; for the other problem types the list holds no       *)
(* LabelEncoder.                                                           *)
(***************************************************************************)
C17_LabelEncoderFirst ==
    Selected =>
        IF args.problem_type \in {"binary", "multiclass", "time series binary",
                                  "time series multiclass"}
        THEN /\ Components # <<>>
             /\ Components[1] = "LabelEncoder"
             /\ Positions(Components, "LabelEncoder") = {1}
             /\ \A sampler \in Samplers : Ordered("LabelEncoder", sampler)
        ELSE ~In("LabelEncoder", Components)

C17_Witness ==
    /\ Selected
    /\ args.problem_type = "time series multiclass"
    /\ Len(Components) >= 12
    /\ Components[1] = "LabelEncoder"
    /\ Components[2] = "DropNullColumns"
    /\ Precedes("LabelEncoder", "Undersampler")

(***************************************************************************)
(* C18, as claimed: every rule can be suppressed through the exclusion     *)
(* set: for whatever component a rule has put in the output there is a     *)
(* name which, added to exclude_featurizers, yields the same list minus    *)
(* that component.                                                         *)
(***************************************************************************)
\* The names a caller may try: the documented options, the class names of
\* the components and the names of the rules
ExclusionNames ==
    Elements(FeaturizerNames) \cup Elements(TimeSeriesOrder)
        \cup {"_get_" \o rule : rule \in {"label_encoder", "drop_all_null",
                 "drop_index_unknown", "imputer", "ordinal_encoder", "ohe",
                 "sampler", "standard_scaler", "decomposer",
                 "drop_nan_rows_transformer"}}

C18_EveryRuleSuppressible ==
    Selected =>
        \A i \in 1..Len(Components) : \E name \in ExclusionNames :
            SelectionWith(Append(entry.exclude_featurizers, name)).components
                = Without(Components, Components[i])

(***************************************************************************)
(* C18, amended: each of the five featurizer rules (datetime, email, URL,  *)
(* natural language, time series featurizer) can be suppressed through the *)
(* exclusion set: adding its name to exclude_featurizers yields exactly    *)
(* the list obtained without it minus that rule's component, all other     *)
(* components and their order unchanged; any other name changes nothing,   *)
(* so the other rules cannot be suppressed.                                *)
(***************************************************************************)
\* The component of the rule an exclusion name stands for
ExcludedComponent(name) ==
    CASE name = "DatetimeFeaturizer" -> "DateTimeFeaturizer"
      [] name = "EmailFeaturizer" -> "EmailFeaturizer"
      [] name = "URLFeaturizer" -> "URLFeaturizer"
      [] name = "NaturalLanguageFeaturizer" -> "NaturalLanguageFeaturizer"
      [] name = "TimeSeriesFeaturizer" -> "TimeSeriesFeaturizer"

\* Names of rules and components that are no option of exclude_featurizers
OtherNames ==
    {"DateTimeFeaturizer", "Imputer", "LabelEncoder", "_get_sampler"}

RECURSIVE WithoutExcluded(_, _)
WithoutExcluded(list, names) ==
    IF names = <<>> THEN list
    ELSE WithoutExcluded(
             IF In(names[1], FeaturizerNames)
             THEN Without(list, ExcludedComponent(names[1]))
             ELSE list,
             Tail(names))

C18_ExclusionRemovesOneComponent ==
    Selected =>
        /\ \A i \in 1..Len(FeaturizerNames) :
              \E r \in {SelectionWith(Append(entry.exclude_featurizers,
                                             FeaturizerNames[i]))} :
                 /\ r.status = "ok"
                 /\ r.components =
                        Without(Components,
                                ExcludedComponent(FeaturizerNames[i]))
        /\ \A name \in OtherNames :
              SelectionWith(Append(entry.exclude_featurizers, name)).components
                  = Components
        /\ Components =
              WithoutExcluded(SelectionWith(<<>>).components,
                              entry.exclude_featurizers)

C18_Witness ==
    /\ Selected
    /\ entry.exclude_featurizers = <<"URLFeaturizer">>
    /\ In("URLFeaturizer", SelectionWith(<<>>).components)
    /\ ~In("URLFeaturizer", Components)
    /\ Precedes("Imputer", "TimeSeriesFeaturizer")
    /\ Precedes("TimeSeriesFeaturizer", "STLDecomposer")
    /\ ~In("TimeSeriesFeaturizer",
           SelectionWith(<<"URLFeaturizer", "TimeSeriesFeaturizer">>).components)
    /\ Precedes("EmailFeaturizer", "OneHotEncoder")

(***************************************************************************)
(* _make_component_list_from_actions                                       *)
(*                                                                         *)
(* An action is [action_code, metadata]; metadata and its "parameters" are *)
(* records, a missing key is a field the record does not have.  A          *)
(* component is [name, parameters].                                        *)
(***************************************************************************)
\* Python compares str by code point: the characters of the column names,
\* in code point order
CodePoints == <<"A", "B", "_", "a", "b">>

ord(character) == CHOOSE i \in 1..Len(CodePoints) : CodePoints[i] = character

\* s < t for str
RECURSIVE str_less(_, _)
str_less(s, t) ==
    IF t = "" THEN FALSE
    ELSE IF s = "" THEN TRUE
    ELSE IF SubSeq(s, 1, 1) # SubSeq(t, 1, 1)
    THEN ord(SubSeq(s, 1, 1)) < ord(SubSeq(t, 1, 1))
    ELSE str_less(SubSeq(s, 2, Len(s)), SubSeq(t, 2, Len(t)))

\* sorted(set) for a set of str
RECURSIVE sorted_strs(_)
sorted_strs(set) ==
    IF set = {} THEN <<>>
    ELSE LET least == CHOOSE x \in set : \A y \in set \ {x} : str_less(x, y)
         IN  <<least>> \o sorted_strs(set \ {least})

\* sorted(set) for a set of int
RECURSIVE sorted_ints(_)
sorted_ints(set) ==
    IF set = {} THEN <<>>
    ELSE LET least == CHOOSE x \in set : \A y \in set : x <= y
         IN  <<least>> \o sorted_ints(set \ {least})

\* list without the later occurrences of its elements
RECURSIVE first_occurrences(_)
first_occurrences(list) ==
    IF list = <<>> THEN <<>>
    ELSE LET front == first_occurrences(SubSeq(list, 1, Len(list) - 1))
         IN  IF In(Last(list), front) THEN front
             ELSE Append(front, Last(list))

\* Faulty variant: the columns are deduplicated but left in the order met.
sorted_cols_to_drop_unsorted(cols_to_drop) == first_occurrences(cols_to_drop)

\* sorted(set(cols_to_drop))
sorted_cols_to_drop(cols_to_drop) ==
    sorted_strs({cols_to_drop[i] : i \in 1..Len(cols_to_drop)})

\* sorted(set(indices_to_drop))
sorted_indices_to_drop(indices_to_drop) ==
    sorted_ints({indices_to_drop[i] : i \in 1..Len(indices_to_drop)})

\* metadata.get("parameters", {})
get_parameters(metadata) ==
    IF "parameters" \in DOMAIN metadata THEN metadata.parameters ELSE <<>>

Component(name, parameters) == [name |-> name, parameters |-> parameters]

\* The action raises KeyError: a key that is read with [] is missing
action_raises(action) ==
    CASE action.action_code = "REGULARIZE_AND_IMPUTE_DATASET" ->
           "frequency_payload" \notin DOMAIN get_parameters(action.metadata)
      [] action.action_code = "DROP_COL" ->
           "columns" \notin DOMAIN action.metadata
      [] action.action_code = "IMPUTE_COL" ->
           \/ "is_target" \notin DOMAIN action.metadata
           \/ /\ action.metadata.is_target
              /\ "impute_strategy"
                     \notin DOMAIN get_parameters(action.metadata)
           \/ /\ ~action.metadata.is_target
              /\ "impute_strategies"
                     \notin DOMAIN get_parameters(action.metadata)
      [] action.action_code = "DROP_ROWS" ->
           "rows" \notin DOMAIN action.metadata
      [] OTHER -> FALSE

\* Faulty variant: every IMPUTE_COL action is taken for a feature column.
action_components_feature_only(action) ==
    IF action.action_code = "REGULARIZE_AND_IMPUTE_DATASET"
    THEN LET parameters == get_parameters(action.metadata)
         IN  <<Component("TimeSeriesRegularizer",
                         [time_index |->
                              IF "time_index" \in DOMAIN parameters
                              THEN parameters.time_index ELSE "",
                          frequency_payload |-> parameters.frequency_payload]),
               Component("TimeSeriesImputer", <<>>)>>
    ELSE IF action.action_code = "IMPUTE_COL"
    THEN LET parameters == get_parameters(action.metadata)
         IN  <<Component("PerColumnImputer",
                         [impute_strategies |->
                              IF action.metadata.is_target
                              THEN parameters.impute_strategy
                              ELSE parameters.impute_strategies])>>
    ELSE <<>>

\* The components one action adds to `components` ("" is None)
action_components(action) ==
    IF action.action_code = "REGULARIZE_AND_IMPUTE_DATASET"
    THEN LET parameters == get_parameters(action.metadata)
         IN  <<Component("TimeSeriesRegularizer",
                         [time_index |->
                              IF "time_index" \in DOMAIN parameters
                              THEN parameters.time_index ELSE "",
                          frequency_payload |-> parameters.frequency_payload]),
               Component("TimeSeriesImputer", <<>>)>>
    ELSE IF action.action_code = "IMPUTE_COL"
    THEN LET parameters == get_parameters(action.metadata)
         IN  IF action.metadata.is_target
             THEN <<Component("TargetImputer",
                              [impute_strategy |->
                                   parameters.impute_strategy])>>
             ELSE <<Component("PerColumnImputer",
                              [impute_strategies |->
                                   parameters.impute_strategies])>>
    ELSE <<>>

\* The loop over actions, from action n.
\* st = [status, components, cols_to_drop, indices_to_drop]
RECURSIVE translate_actions(_, _, _)
translate_actions(actions, n, st) ==
    IF n > Len(actions) THEN st
    ELSE IF action_raises(actions[n])
    THEN [st EXCEPT !.status = "KeyError"]
    ELSE translate_actions(actions, n + 1,
            [status |-> "ok",
             components |-> st.components \o action_components(actions[n]),
             cols_to_drop |->
                 IF actions[n].action_code = "DROP_COL"
                 THEN st.cols_to_drop \o actions[n].metadata.columns
                 ELSE st.cols_to_drop,
             indices_to_drop |->
                 IF actions[n].action_code = "DROP_ROWS"
                 THEN st.indices_to_drop \o actions[n].metadata.rows
                 ELSE st.indices_to_drop])

\* Faulty variant: the rows are dropped before the columns.
make_component_list_from_actions_rows_first(actions) ==
    LET st == translate_actions(actions, 1,
                 [status |-> "ok", components |-> <<>>,
                  cols_to_drop |-> <<>>, indices_to_drop |-> <<>>])
        drop_columns ==
            IF st.cols_to_drop # <<>>
            THEN <<Component("DropColumns",
                       [columns |-> sorted_cols_to_drop(st.cols_to_drop)])>>
            ELSE <<>>
        drop_rows ==
            IF st.indices_to_drop # <<>>
            THEN <<Component("DropRowsTransformer",
                       [indices_to_drop |->
                            sorted_indices_to_drop(st.indices_to_drop)])>>
            ELSE <<>>
    IN  IF st.status # "ok"
        THEN [status |-> st.status, components |-> <<>>]
        ELSE [status |-> "ok",
              components |-> st.components \o drop_rows \o drop_columns]

\* The whole function.  Returns [status, components].
make_component_list_from_actions(actions) ==
    LET st == translate_actions(actions, 1,
                 [status |-> "ok", components |-> <<>>,
                  cols_to_drop |-> <<>>, indices_to_drop |-> <<>>])
        drop_columns ==
            IF st.cols_to_drop # <<>>
            THEN <<Component("DropColumns",
                       [columns |-> sorted_cols_to_drop(st.cols_to_drop)])>>
            ELSE <<>>
        drop_rows ==
            IF st.indices_to_drop # <<>>
            THEN <<Component("DropRowsTransformer",
                       [indices_to_drop |->
                            sorted_indices_to_drop(st.indices_to_drop)])>>
            ELSE <<>>
    IN  IF st.status # "ok"
        THEN [status |-> st.status, components |-> <<>>]
        ELSE [status |-> "ok",
              components |-> st.components \o drop_columns \o drop_rows]

(***************************************************************************)
(* The callers' inputs of _make_component_list_from_actions                *)
(***************************************************************************)
MaxActions == 3

DataCheckAction(action_code, metadata) ==
    [action_code |-> action_code, metadata |-> metadata]

DropCol(columns) == DataCheckAction("DROP_COL", [columns |-> columns])

DropRows(rows) == DataCheckAction("DROP_ROWS", [rows |-> rows])

ImputeTarget ==
    DataCheckAction("IMPUTE_COL",
        [is_target |-> TRUE,
         parameters |-> [impute_strategy |-> "most_frequent"]])

ImputeFeatures ==
    DataCheckAction("IMPUTE_COL",
        [is_target |-> FALSE,
         parameters |->
             [impute_strategies |->
                  <<Entry("a", <<Entry("impute_strategy", "mean")>>)>>]])

\* An IMPUTE_COL action that carries no parameters
ImputeUnparameterized ==
    DataCheckAction("IMPUTE_COL", [is_target |-> FALSE])

RegularizeAndImpute ==
    DataCheckAction("REGULARIZE_AND_IMPUTE_DATASET",
        [is_target |-> FALSE,
         parameters |-> [time_index |-> "dates",
                         frequency_payload |-> "payload"]])

\* An action code the function has no branch for
TransformTarget ==
    DataCheckAction("TRANSFORM_TARGET", [is_target |-> TRUE])

ActionPool ==
    {DropCol(<<"a">>), DropCol(<<"b", "a">>), DropCol(<<"ab", "B">>),
     DropCol(<<>>), DropRows(<<3>>), DropRows(<<5, 1, 5>>), DropRows(<<>>),
     ImputeTarget, ImputeFeatures, ImputeUnparameterized,
     RegularizeAndImpute, TransformTarget}

\* Lists of at most n actions drawn from the pool
RECURSIVE ActionLists(_)
ActionLists(n) ==
    IF n = 0 THEN {<<>>}
    ELSE LET shorter == ActionLists(n - 1)
         IN  shorter \cup
             {Append(l, a) : l \in {x \in shorter : Len(x) = n - 1},
                             a \in ActionPool}

(***************************************************************************)
(* The state machine: a caller translates a list of actions.               *)
(***************************************************************************)
ActionsInit ==
    /\ \E actions \in ActionLists(MaxActions) :
          /\ args = [actions |-> actions]
          /\ original = [actions |-> actions]
    /\ heap = <<>>
    /\ caller = <<>>
    /\ entry = <<>>
    /\ result = NoComponents
    /\ ncalls = 0

MakeComponentList ==
    /\ ncalls = 0
    /\ result' = make_component_list_from_actions(args.actions)
    /\ ncalls' = 1
    /\ UNCHANGED <<heap, caller, args, original, entry>>

ActionsNext == MakeComponentList

ActionsSpec == ActionsInit /\ [][ActionsNext]_vars

(***************************************************************************)
(* Vocabulary of the properties of _make_component_list_from_actions       *)
(***************************************************************************)
Translated == ncalls = 1 /\ result.status = "ok"

Actions == args.actions

\* The components of the output with a given name, in order
RECURSIVE Named(_, _)
Named(components, names) ==
    IF components = <<>> THEN <<>>
    ELSE IF components[1].name \in names
    THEN <<components[1]>> \o Named(Tail(components), names)
    ELSE Named(Tail(components), names)

\* The actions with a given code, in order
RECURSIVE WithCode(_, _)
WithCode(actions, codes) ==
    IF actions = <<>> THEN <<>>
    ELSE IF actions[1].action_code \in codes
    THEN <<actions[1]>> \o WithCode(Tail(actions), codes)
    ELSE WithCode(Tail(actions), codes)

\* All columns (rows) the DROP_COL (DROP_ROWS) actions name
DroppedColumns ==
    UNION {Elements(a.metadata.columns) :
              a \in Elements(WithCode(Actions, {"DROP_COL"}))}

DroppedRows ==
    UNION {Elements(a.metadata.rows) :
              a \in Elements(WithCode(Actions, {"DROP_ROWS"}))}

\* Ascending order of the column names used here, as Python orders str
ColumnsAscending ==
    <<"B", "a", "ab", "b">>

\* A list of columns in ascending order without duplicates
AscendingColumns(list) == IsSubsequence(list, ColumnsAscending)

AscendingRows(list) ==
    \A i, j \in 1..Len(list) : i < j => list[i] < list[j]

(***************************************************************************)
(* C19: the output holds at most one DropColumns component, present iff    *)
(* some DROP_COL action names at least one column, with the ascending      *)
(* duplicate-free union of all DROP_COL column lists, and at most one      *)
(* DropRowsTransformer, present iff some DROP_ROWS action names at least   *)
(* one row, with the ascending duplicate-free union of all DROP_ROWS row   *)
(* lists.                                                                  *)
(***************************************************************************)
C19_DropsCoalesced ==
    Translated =>
        \E cols \in {Named(result.components, {"DropColumns"})},
           rows \in {Named(result.components, {"DropRowsTransformer"})} :
            /\ Len(cols) <= 1
            /\ Len(cols) = 1 <=> DroppedColumns # {}
            /\ Len(cols) = 1 =>
                  /\ Elements(cols[1].parameters.columns) = DroppedColumns
                  /\ AscendingColumns(cols[1].parameters.columns)
            /\ Len(rows) <= 1
            /\ Len(rows) = 1 <=> DroppedRows # {}
            /\ Len(rows) = 1 =>
                  /\ Elements(rows[1].parameters.indices_to_drop) = DroppedRows
                  /\ AscendingRows(rows[1].parameters.indices_to_drop)

C19_Witness ==
    /\ Translated
    /\ Actions = <<DropCol(<<"a">>), DropCol(<<"b", "a">>), DropRows(<<3>>)>>
    /\ result.components =
          <<Component("DropColumns", [columns |-> <<"a", "b">>]),
            Component("DropRowsTransformer", [indices_to_drop |-> <<3>>])>>

(***************************************************************************)
(* C20, as claimed: the output holds exactly one component per IMPUTE_COL  *)
(* or REGULARIZE_AND_IMPUTE_DATASET action, in the order of the actions:   *)
(* as many non-drop components as such actions, the i-th of them for the   *)
(* i-th such action (TargetImputer with the single strategy when           *)
(* is_target, PerColumnImputer with the column-to-strategy mapping         *)
(* otherwise).                                                             *)
(***************************************************************************)
NonDropComponents ==
    Named(result.components,
          {"TargetImputer", "PerColumnImputer", "TimeSeriesRegularizer",
           "TimeSeriesImputer"})

NonDropActions ==
    WithCode(Actions, {"IMPUTE_COL", "REGULARIZE_AND_IMPUTE_DATASET"})

\* The component an IMPUTE_COL action stands for
Imputer(action) ==
    IF action.metadata.is_target
    THEN Component("TargetImputer",
             [impute_strategy |-> action.metadata.parameters.impute_strategy])
    ELSE Component("PerColumnImputer",
             [impute_strategies |->
                  action.metadata.parameters.impute_strategies])

C20_OneComponentPerAction ==
    Translated =>
        /\ Len(NonDropComponents) = Len(NonDropActions)
        /\ \A i \in 1..Len(NonDropActions) :
              NonDropActions[i].action_code = "IMPUTE_COL"
                  => NonDropComponents[i] = Imputer(NonDropActions[i])

(***************************************************************************)
(* C20, amended: the output holds one component per IMPUTE_COL action      *)
(* (TargetImputer with the single strategy when is_target,                 *)
(* PerColumnImputer with the column-to-strategy mapping otherwise) and two *)
(* per REGULARIZE_AND_IMPUTE_DATASET action (a TimeSeriesRegularizer with  *)
(* the action's time_index and frequency_payload, then a                   *)
(* TimeSeriesImputer), in the order of the actions and before the drop     *)
(* components.                                                             *)
(***************************************************************************)
RECURSIVE ExpectedComponents(_)
ExpectedComponents(actions) ==
    IF actions = <<>> THEN <<>>
    ELSE (IF actions[1].action_code = "IMPUTE_COL"
          THEN <<Imputer(actions[1])>>
          ELSE <<Component("TimeSeriesRegularizer",
                     [time_index |-> actions[1].metadata.parameters.time_index,
                      frequency_payload |->
                          actions[1].metadata.parameters.frequency_payload]),
                 Component("TimeSeriesImputer", <<>>)>>)
         \o ExpectedComponents(Tail(actions))

C20_ComponentsPerAction ==
    Translated =>
        /\ NonDropComponents = ExpectedComponents(NonDropActions)
        /\ SubSeq(result.components, 1, Len(NonDropComponents))
              = NonDropComponents

C20_Witness ==
    /\ Translated
    /\ Actions = <<ImputeTarget, RegularizeAndImpute, ImputeFeatures>>
    /\ Len(result.components) = 4
    /\ result.components[1].name = "TargetImputer"
    /\ result.components[2].name = "TimeSeriesRegularizer"
    /\ result.components[3].name = "TimeSeriesImputer"
    /\ result.components[4].name = "PerColumnImputer"

(***************************************************************************)
(* check_distribution (model_understanding/metrics.py)                     *)
(*                                                                         *)
(* A p-value is a number of thousandths, 0..1000, or NaN.  The statistical *)
(* tests are library calls: each is modelled by the set of p-values it can *)
(* give for its arguments, exact where the statistic decides it.           *)
(***************************************************************************)
NaN == -1

\* In place of a p-value: the test raises ValueError.
ValueError == -2

\* The p-values a test gives when its statistic does not decide the value.
PValues == {0, 99, 100, 499, 500, 1000}

\* p_value < threshold for floats: every comparison with NaN is False
less_than(p_value, threshold) == p_value # NaN /\ p_value < threshold

\* Series.value_counts(): the distinct values with their counts, the most
\* frequent first, equal counts in the order the values are first met.
RECURSIVE by_count_descending(_)
by_count_descending(counts) ==
    IF counts = <<>> THEN <<>>
    ELSE LET most == CHOOSE i \in 1..Len(counts) :
                        /\ \A j \in 1..Len(counts) :
                              counts[j].count <= counts[i].count
                        /\ \A j \in 1..(i - 1) :
                              counts[j].count < counts[i].count
         IN  <<counts[most]>>
                 \o by_count_descending(SubSeq(counts, 1, most - 1)
                        \o SubSeq(counts, most + 1, Len(counts)))

value_counts(y) ==
    LET values == first_occurrences(y)
    IN  by_count_descending(
            [i \in 1..Len(values) |->
                [value |-> values[i], count |-> Count(y, values[i])]])

\* chisquare(f_obs, f_exp).pvalue: the arrays are compared by position;
\* the test has len(f_obs) - 1 degrees of freedom, and with none the p-value
\* is NaN; a statistic of zero gives 1, a positive one less than 1.
chisquare(f_obs, f_exp) ==
    IF Len(f_obs) = 1 THEN {NaN}
    ELSE IF \A i \in 1..Len(f_obs) : f_obs[i].count = f_exp[i].count
    THEN {1000}
    ELSE PValues \ {1000}

\* wilcoxon(x, y).pvalue: the test of the differences x - y; when all of
\* them are zero the p-value is NaN, and releases of the library that
\* refuse such a sample raise ValueError.
wilcoxon(x, y) ==
    IF \A i \in 1..Len(x) : x[i] = y[i] THEN {NaN, ValueError} ELSE PValues

\* kstest(x, y).pvalue: the two-sample test; equal samples give 1.
kstest(x, y) ==
    IF \A v \in {x[i] : i \in 1..Len(x)} \cup {y[i] : i \in 1..Len(y)} :
           Count(x, v) = Count(y, v)
    THEN {1000}
    ELSE PValues

Distribution(status, value, test, p_value) ==
    [status |-> status, value |-> value, test |-> test, p_value |-> p_value]

\* return 0 if p_value < threshold else 1
decide(test, p_value, threshold) ==
    IF p_value = ValueError THEN Distribution("ValueError", 0, test, NaN)
    ELSE Distribution("ok", IF less_than(p_value, threshold) THEN 0 ELSE 1,
                      test, p_value)

\* Faulty variant: the time-series branch is tried first.
check_distribution_time_series_first(y_true, y_pred, problem_type, threshold) ==
    IF is_time_series(problem_type)
    THEN {decide("wilcoxon", p, threshold) : p \in wilcoxon(y_true, y_pred)}
    ELSE IF is_classification(problem_type)
    THEN LET true_value_counts == value_counts(y_true)
             pred_value_counts == value_counts(y_pred)
         IN  IF Len(true_value_counts) # Len(pred_value_counts)
             THEN {Distribution("ok", 0, "none", NaN)}
             ELSE {decide("chisquare", p, threshold) :
                      p \in chisquare(pred_value_counts, true_value_counts)}
    ELSE {decide("kstest", p, threshold) : p \in kstest(y_true, y_pred)}

\* check_distribution: the results the call can give, one per p-value the
\* selected test can give.
check_distribution(y_true, y_pred, problem_type, threshold) ==
    IF is_classification(problem_type)
    THEN LET true_value_counts == value_counts(y_true)
             pred_value_counts == value_counts(y_pred)
         IN  IF Len(true_value_counts) # Len(pred_value_counts)
             THEN {Distribution("ok", 0, "none", NaN)}
             ELSE {decide("chisquare", p, threshold) :
                      p \in chisquare(pred_value_counts, true_value_counts)}
    ELSE IF is_time_series(problem_type)
    THEN {decide("wilcoxon", p, threshold) : p \in wilcoxon(y_true, y_pred)}
    ELSE IF is_regression(problem_type)
    THEN {decide("kstest", p, threshold) : p \in kstest(y_true, y_pred)}
    ELSE {Distribution("UnboundLocalError", 0, "none", NaN)}

(***************************************************************************)
(* The calls of check_distribution: a target and a prediction of the same  *)
(* length over the values 0 and 1, every problem type, a threshold         *)
(* strictly between 0 and 1.                                               *)
(***************************************************************************)
MaxRows == 3

Targets(n) == UNION {[1..k -> {0, 1}] : k \in 1..n}

Thresholds == {100, 500}

NoDistribution == Distribution("none", 0, "none", NaN)

DistributionInit ==
    /\ \E y_true \in Targets(MaxRows), problem_type \in ProblemTypes,
          threshold \in Thresholds :
          \E y_pred \in [1..Len(y_true) -> {0, 1}] :
             /\ args = [y_true |-> y_true, y_pred |-> y_pred,
                        problem_type |-> problem_type,
                        threshold |-> threshold]
             /\ original = args
    /\ heap = <<>>
    /\ caller = <<>>
    /\ entry = <<>>
    /\ result = NoDistribution
    /\ ncalls = 0

CheckDistribution ==
    /\ ncalls = 0
    /\ result' \in check_distribution(args.y_true, args.y_pred,
                                      args.problem_type, args.threshold)
    /\ ncalls' = 1
    /\ UNCHANGED <<heap, caller, args, original, entry>>

DistributionNext == CheckDistribution

DistributionSpec == DistributionInit /\ [][DistributionNext]_vars

(***************************************************************************)
(* Vocabulary of the properties of check_distribution                      *)
(***************************************************************************)
Checked == ncalls = 1 /\ result.status = "ok"

TestFor(problem_type) ==
    IF problem_type \in {"binary", "multiclass", "time series binary",
                         "time series multiclass"}
    THEN "chisquare"
    ELSE IF problem_type \in {"time series regression",
                              "multiseries time series regression"}
    THEN "wilcoxon"
    ELSE "kstest"

Classes(y) == {y[i] : i \in 1..Len(y)}

ClassCountsDiffer ==
    Cardinality(Classes(args.y_true)) # Cardinality(Classes(args.y_pred))

\* the counts of the classes, whatever the classes are, as a multiset
CountsOf(y) == [n \in 1..Len(y) |->
                   Cardinality({v \in Classes(y) : Count(y, v) = n})]

SameValueCounts == CountsOf(args.y_true) = CountsOf(args.y_pred)


\* The test is chosen by problem type, or none is run.
TestSelected ==
    IF Classification /\ ClassCountsDiffer
    THEN result.test = "none" /\ result.value = 0
    ELSE result.test = TestFor(args.problem_type)

(***************************************************************************)
(* C21: check_distribution selects its test by problem type (chi-square    *)
(* for every classification type, Wilcoxon for the other time-series       *)
(* types, Kolmogorov-Smirnov for plain regression) and returns 1 iff the   *)
(* resulting p-value is >= threshold and 0 otherwise; for classification   *)
(* it returns 0 without running a test when the numbers of classes differ, *)
(* and 1 when the value counts are identical.                              *)
(***************************************************************************)
C21_OneIffPValueAtLeastThreshold ==
    Checked =>
        /\ TestSelected
        /\ result.test # "none" =>
              (result.value = 1 <=>
                  (result.p_value # NaN /\ result.p_value >= args.threshold))
        /\ result.value \in {0, 1}
        /\ (Classification /\ SameValueCounts) => result.value = 1

(***************************************************************************)
(* C21, amended: as above, but the result is 0 iff the p-value is less     *)
(* than the threshold and 1 otherwise, so that a p-value that is not a     *)
(* number - what chi-square gives for one class - returns 1.               *)
(***************************************************************************)
C21_ZeroIffPValueBelowThreshold ==
    Checked =>
        /\ TestSelected
        /\ result.test # "none" =>
              (result.value = 0 <=>
                  (result.p_value # NaN /\ result.p_value < args.threshold))
        /\ result.value \in {0, 1}
        /\ (Classification /\ SameValueCounts) => result.value = 1

C21_Witness ==
    /\ Checked
    /\ args.problem_type = "time series binary"
    /\ args.y_true = <<0, 0, 1>>
    /\ args.y_pred = <<1, 1, 0>>
    /\ result.test = "chisquare"
    /\ result.p_value = 1000
    /\ result.value = 1

(***************************************************************************)
(* unstack_multiseries, stack_data and stack_X                             *)
(*                                                                         *)
(* A DataFrame is its column names, its index labels and its rows, each    *)
(* row the values of the columns in order; a Series is a DataFrame of one  *)
(* column.  A missing value is NaN.                                        *)
(***************************************************************************)
DataFrame(columns, index, rows) ==
    [columns |-> columns, index |-> index, rows |-> rows]

\* pd.RangeIndex(start, stop)
RangeIndex(start, stop) == [i \in 1..(stop - start) |-> start + i - 1]

\* the position of the column called name
loc(columns, name) == CHOOSE j \in 1..Len(columns) : columns[j] = name

\* frame[name]: the values of one column
column(frame, name) ==
    [i \in 1..Len(frame.rows) |-> frame.rows[i][loc(frame.columns, name)]]

RECURSIVE flatten(_)
flatten(lists) ==
    IF lists = <<>> THEN <<>> ELSE lists[1] \o flatten(Tail(lists))

\* the position of the last "_" of a name, 0 when it has none
last_underscore(name) ==
    IF \E k \in 1..Len(name) : SubSeq(name, k, k) = "_"
    THEN CHOOSE k \in 1..Len(name) :
            /\ SubSeq(name, k, k) = "_"
            /\ \A later \in (k + 1)..Len(name) : SubSeq(name, later, later) # "_"
    ELSE 0

\* "_".join(name.split("_")[:-1])
base_name(name) ==
    IF last_underscore(name) = 0 THEN ""
    ELSE SubSeq(name, 1, last_underscore(name) - 1)

\* name.split("_")[-1]
name_suffix(name) == SubSeq(name, last_underscore(name) + 1, Len(name))

\* part in name, for str
contains(name, part) ==
    \E k \in 1..(Len(name) - Len(part) + 1) :
        SubSeq(name, k, k + Len(part) - 1) = part

\* pd.concat(columns, axis=1): the columns side by side, aligned on the
\* union of their indexes in the order the labels are first met; a column
\* without a label has NaN there.
concat_columns(frames) ==
    LET index == first_occurrences(flatten([f \in 1..Len(frames) |->
                                               frames[f].index]))
        cell(frame, label) ==
            IF In(label, frame.index)
            THEN frame.rows[CHOOSE i \in 1..Len(frame.index) :
                                frame.index[i] = label]
            ELSE [j \in 1..Len(frame.columns) |-> NaN]
    IN  DataFrame(flatten([f \in 1..Len(frames) |-> frames[f].columns]),
                  index,
                  [i \in 1..Len(index) |->
                      flatten([f \in 1..Len(frames) |->
                                  cell(frames[f], index[i])])])

\* frame.reset_index(): the index becomes the first column
reset_index(frame, index_name) ==
    DataFrame(<<index_name>> \o frame.columns,
              RangeIndex(0, Len(frame.index)),
              [i \in 1..Len(frame.index) |->
                  <<frame.index[i]>> \o frame.rows[i]])

\* frame.reset_index(drop=True)
reset_index_drop(frame) ==
    DataFrame(frame.columns, RangeIndex(0, Len(frame.index)), frame.rows)

\* the unstacked column of one series: single_series[column_name] indexed by
\* the time index of the series and named f"{column_name}_{s_id}"
unstacked_column(full_dataset, series_id, time_index, s_id, column_name) ==
    LET positions ==
            SelectSeq([i \in 1..Len(full_dataset.rows) |-> i],
                       LAMBDA i : column(full_dataset, series_id)[i] = s_id)
    IN  DataFrame(<<column_name \o "_" \o s_id>>,
                  [p \in 1..Len(positions) |->
                      column(full_dataset, time_index)[positions[p]]],
                  [p \in 1..Len(positions) |->
                      <<column(full_dataset, column_name)[positions[p]]>>])

unstack_multiseries(X, y, series_id, time_index, target_name) ==
    LET full_dataset ==
            DataFrame(X.columns \o y.columns, X.index,
                      [i \in 1..Len(X.rows) |-> X.rows[i] \o y.rows[i]])
        series_id_unique == first_occurrences(column(full_dataset, series_id))
        data_columns ==
            SelectSeq(full_dataset.columns,
                       LAMBDA c : c \notin {time_index, series_id})
        unstacked_cols(wanted(_)) ==
            flatten([s \in 1..Len(series_id_unique) |->
                [c \in 1..Len(SelectSeq(data_columns, wanted)) |->
                    unstacked_column(full_dataset, series_id, time_index,
                        series_id_unique[s],
                        SelectSeq(data_columns, wanted)[c])]])
        y_unstacked_cols == unstacked_cols(LAMBDA c : c = target_name)
        X_unstacked_cols == unstacked_cols(LAMBDA c : c # target_name)
        y_unstacked == concat_columns(y_unstacked_cols)
        X_unstacked ==
            IF Len(X_unstacked_cols) = 0
            THEN DataFrame(<<>>, y_unstacked.index,
                           [i \in 1..Len(y_unstacked.index) |-> <<>>])
            ELSE concat_columns(X_unstacked_cols)
    IN  [X |-> reset_index(X_unstacked, time_index),
         y |-> reset_index_drop(y_unstacked)]

\* An optional argument: None, or a value.
None == [is_none |-> TRUE]

Some(value) == [is_none |-> FALSE, value |-> value]

\* frame[columns]: the columns of the frame with these positions
take_columns(frame, positions) ==
    DataFrame([p \in 1..Len(positions) |-> frame.columns[positions[p]]],
              frame.index,
              [i \in 1..Len(frame.rows) |->
                  [p \in 1..Len(positions) |-> frame.rows[i][positions[p]]]])

\* starting_index or index[0]
start_of(starting_index, index) ==
    IF starting_index = None \/ starting_index.value = 0 THEN index[1]
    ELSE starting_index.value

\* data.stack(0): the values row by row and, within a row, column by column,
\* each with the name of its column; missing values are dropped
stack(data) ==
    SelectSeq(flatten([i \in 1..Len(data.rows) |->
                  [j \in 1..Len(data.columns) |->
                      [name |-> data.columns[j], value |-> data.rows[i][j]]]]),
              LAMBDA cell : cell.value # NaN)

\* stack_data for a DataFrame with a numeric index
stack_data(data, include_series_id, series_id_name, starting_index) ==
    LET stacked_series == stack(data)
        name == base_name(stacked_series[1].name)
        start_index == start_of(starting_index, data.index)
        new_time_index ==
            RangeIndex(start_index, start_index + Len(stacked_series))
    IN  IF include_series_id
        THEN DataFrame(<<IF series_id_name = None THEN "series_id"
                         ELSE series_id_name.value, name>>,
                       new_time_index,
                       [i \in 1..Len(stacked_series) |->
                           <<name_suffix(stacked_series[i].name),
                             stacked_series[i].value>>])
        ELSE DataFrame(<<name>>, new_time_index,
                       [i \in 1..Len(stacked_series) |->
                           <<stacked_series[i].value>>])

\* the orders in which a set can be iterated
Orders(set) ==
    {order \in [1..Cardinality(set) -> set] :
        \A i, j \in 1..Cardinality(set) : order[i] = order[j] => i = j}

\* series.repeat(n)
repeat(values, n) ==
    [i \in 1..(Len(values) * n) |-> values[((i - 1) \div n) + 1]]

\* list * n
times(list, n) ==
    [i \in 1..(Len(list) * n) |-> list[((i - 1) % Len(list)) + 1]]

Stacked(status, frame) == [status |-> status, frame |-> frame]

NoFrame == DataFrame(<<>>, <<>>, <<>>)

\* The else branch of stack_X, the original columns iterated in this order.
restack(X, series_id_name, time_index, starting_index, time_index_col, order) ==
    LET subset_X(original_col) ==
            SelectSeq([j \in 1..Len(X.columns) |-> j],
                      LAMBDA j : contains(X.columns[j], original_col))
        restacked_X ==
            concat_columns([i \in 1..Len(order) |->
                stack_data(take_columns(X, subset_X(order[i])), i = 1,
                           Some(series_id_name), starting_index)])
    IN  IF Len(time_index_col) # Len(restacked_X.index)
        THEN Stacked("ValueError", NoFrame)
        ELSE Stacked("ok",
                 DataFrame(Append(restacked_X.columns, time_index),
                           restacked_X.index,
                           [i \in 1..Len(restacked_X.rows) |->
                               Append(restacked_X.rows[i],
                                      time_index_col[i])]))

\* stack_X: the results the call can give, one per order in which the set
\* of original columns is iterated.
stack_X(X, series_id_name, time_index, starting_index, series_id_values) ==
    LET wide_columns == SelectSeq(X.columns, LAMBDA col : col # time_index)
        from_columns == series_id_values = None
        original_columns ==
            IF from_columns
            THEN {base_name(wide_columns[j]) : j \in 1..Len(wide_columns)}
            ELSE {}
        series_ids ==
            IF from_columns
            THEN {name_suffix(wide_columns[j]) : j \in 1..Len(wide_columns)}
            ELSE series_id_values.value
        time_index_col ==
            repeat(column(X, time_index), Cardinality(series_ids))
        start_index == start_of(starting_index, X.index)
        stacked_index ==
            RangeIndex(start_index, start_index + Len(time_index_col))
    IN  IF Cardinality(series_ids) = 0
        THEN {Stacked("ValueError", NoFrame)}
        ELSE IF Cardinality(original_columns) = 0
        THEN {Stacked("ok",
                  DataFrame(<<time_index, series_id_name>>, stacked_index,
                      [i \in 1..Len(time_index_col) |->
                          <<time_index_col[i],
                            times(sorted_strs(series_ids), Len(X.rows))[i]>>]))}
        ELSE {restack(X, series_id_name, time_index, starting_index,
                      time_index_col, order) :
                 order \in Orders(original_columns)}

(***************************************************************************)
(* The calls of the multiseries transform: long-format data of one row per *)
(* series and time, every series over the same times; unstack_multiseries, *)
(* then stack_X on the wide features and stack_data on the wide target.    *)
(***************************************************************************)
MaxTimes == 2

TimeGrids(n) == UNION {Orders(1..k) : k \in 1..n}

SeriesIdLists ==
    {<<"a">>, <<"a", "b">>, <<"b", "a">>, <<"a_a", "a_b">>, <<"a_b", "b_b">>}

FeatureLists == {<<>>, <<"f">>, <<"f", "g">>, <<"f", "fg">>, <<"a">>}

\* the rows by series, by time, or by series with the times of the later
\* series in reverse
Layouts == {"by series", "by time", "reversed"}

Reverse(list) == [i \in 1..Len(list) |-> list[Len(list) + 1 - i]]

\* the (series, time) pairs of the rows, in the order of the layout
RowKeys(grid, ids, layout) ==
    IF layout = "by time"
    THEN flatten([t \in 1..Len(grid) |->
             [s \in 1..Len(ids) |-> [series |-> s, time |-> grid[t]]]])
    ELSE flatten([s \in 1..Len(ids) |->
             [t \in 1..Len(grid) |->
                 [series |-> s,
                  time |-> IF layout = "reversed" /\ s > 1
                           THEN Reverse(grid)[t] ELSE grid[t]]]])

\* a value that tells its column, its series and its time
ValueAt(col, key) == 100 * col + 10 * key.series + key.time

LongX(grid, ids, features, layout) ==
    LET keys == RowKeys(grid, ids, layout)
    IN  DataFrame(<<"date", "id">> \o features,
                  RangeIndex(0, Len(keys)),
                  [i \in 1..Len(keys) |->
                      <<keys[i].time, ids[keys[i].series]>>
                          \o [c \in 1..Len(features) |-> ValueAt(c, keys[i])]])

LongY(grid, ids, layout) ==
    LET keys == RowKeys(grid, ids, layout)
    IN  DataFrame(<<"target">>, RangeIndex(0, Len(keys)),
                  [i \in 1..Len(keys) |-> <<ValueAt(9, keys[i])>>])

NoStack == [status |-> "none", X |-> NoFrame, y |-> NoFrame]

StackInit ==
    /\ \E grid \in TimeGrids(MaxTimes), ids \in SeriesIdLists,
          features \in FeatureLists, layout \in Layouts,
          starting_index \in {None, Some(3)} :
          \E series_id_values \in {None, Some({ids[s] : s \in 1..Len(ids)})} :
             /\ args = [X |-> LongX(grid, ids, features, layout),
                        y |-> LongY(grid, ids, layout),
                        series_id |-> "id", time_index |-> "date",
                        target_name |-> "target",
                        starting_index |-> starting_index,
                        series_id_values |-> series_id_values]
             /\ original = args
    /\ heap = <<>>
    /\ caller = <<>>
    /\ entry = [X |-> NoFrame, y |-> NoFrame]
    /\ result = NoStack
    /\ ncalls = 0

Unstack ==
    /\ ncalls = 0
    /\ entry' = unstack_multiseries(args.X, args.y, args.series_id,
                                    args.time_index, args.target_name)
    /\ ncalls' = 1
    /\ UNCHANGED <<heap, caller, args, original, result>>

Restack ==
    /\ ncalls = 1
    /\ \E stacked \in stack_X(entry.X, args.series_id, args.time_index,
                              args.starting_index, args.series_id_values) :
          result' = [status |-> stacked.status, X |-> stacked.frame,
                     y |-> stack_data(entry.y, FALSE, None,
                                      args.starting_index)]
    /\ ncalls' = 2
    /\ UNCHANGED <<heap, caller, args, original, entry>>

StackNext == Unstack \/ Restack

StackSpec == StackInit /\ [][StackNext]_vars

(***************************************************************************)
(* Vocabulary of the properties of the multiseries transform               *)
(***************************************************************************)
Restacked == ncalls = 2

FeatureNames == {args.X.columns[j] : j \in 3..Len(args.X.columns)}

HasFeatures == FeatureNames # {}

\* a row as (time index, series id, feature values, target value)
RowOf(X, y, i) ==
    [time |-> column(X, "date")[i], series |-> column(X, "id")[i],
     features |-> [f \in FeatureNames |-> column(X, f)[i]],
     target |-> y.rows[i][1]]

RowsOf(X, y) == [i \in 1..Len(X.rows) |-> RowOf(X, y, i)]

SameMultiset(rows, others) ==
    /\ Len(rows) = Len(others)
    /\ \A i \in 1..Len(rows) : Count(rows, rows[i]) = Count(others, rows[i])

ColumnNames(frame) == {frame.columns[j] : j \in 1..Len(frame.columns)}

\* the restacked data holds the rows of the long data
Reproduced(X, y) ==
    /\ ColumnNames(X) = {"date", "id"} \cup FeatureNames
    /\ Len(X.columns) = Cardinality(ColumnNames(X))
    /\ Len(X.rows) = Len(y.rows)
    /\ SameMultiset(RowsOf(args.X, args.y), RowsOf(X, y))

(***************************************************************************)
(* C22: for long-format data whose series share one set of time-index      *)
(* values, and for any feature column names and series identifiers,        *)
(* unstack_multiseries followed by stack_X on the wide features and        *)
(* stack_data on the wide target reproduces the original rows: the same    *)
(* multiset of (time index, series id, feature values, target value).      *)
(***************************************************************************)
C22_RoundTrip ==
    (Restacked /\ HasFeatures /\ args.series_id_values = None) =>
        /\ result.status = "ok"
        /\ Reproduced(result.X, result.y)

\* The round trip for names that cannot be confused: identifiers without
\* "_" and no feature name inside another column name.
PlainNames ==
    /\ \A i \in 1..Len(args.X.rows) : ~contains(column(args.X, "id")[i], "_")
    /\ \A f \in FeatureNames :
          /\ ~contains("date", f)
          /\ \A g \in FeatureNames \ {f} : ~contains(g, f)
          /\ \A i \in 1..Len(args.X.rows) :
                ~contains(column(args.X, "id")[i], f)

RoundTripOfPlainNames ==
    (Restacked /\ HasFeatures /\ args.series_id_values = None /\ PlainNames)
        => (result.status = "ok" /\ Reproduced(result.X, result.y))

(***************************************************************************)
(* make_pipeline and _make_pipeline_time_series                            *)
(*                                                                         *)
(* X is its columns, each with a name and a logical type, and the          *)
(* frequency and seasonal period of its time index.  A component class is  *)
(* named as in the source, a node of a graph by the name of its component. *)
(***************************************************************************)
\* Collaborators that live outside utils.py
\* The component registry: the name of a component class
component_name(component_class) ==
    CASE component_class = "LabelEncoder" -> "Label Encoder"
      [] component_class = "DropNullColumns" -> "Drop Null Columns Transformer"
      [] component_class = "DropColumns" -> "Drop Columns Transformer"
      [] component_class = "URLFeaturizer" -> "URL Featurizer"
      [] component_class = "EmailFeaturizer" -> "Email Featurizer"
      [] component_class = "DateTimeFeaturizer" -> "DateTime Featurizer"
      [] component_class = "NaturalLanguageFeaturizer"
             -> "Natural Language Featurizer"
      [] component_class = "Imputer" -> "Imputer"
      [] component_class = "TimeSeriesFeaturizer" -> "Time Series Featurizer"
      [] component_class = "STLDecomposer" -> "STL Decomposer"
      [] component_class = "OrdinalEncoder" -> "Ordinal Encoder"
      [] component_class = "OneHotEncoder" -> "One Hot Encoder"
      [] component_class = "DropNaNRowsTransformer"
             -> "Drop NaN Rows Transformer"
      [] component_class = "Undersampler" -> "Undersampler"
      [] component_class = "Oversampler" -> "Oversampler"
      [] component_class = "StandardScaler" -> "Standard Scaler"
      [] component_class = "SelectColumns" -> "Select Columns Transformer"
      [] component_class = "DFSTransformer" -> "DFS Transformer"
      [] component_class = "TargetImputer" -> "Target Imputer"
      [] component_class = "RandomForestClassifier"
             -> "Random Forest Classifier"
      [] component_class = "LogisticRegressionClassifier"
             -> "Logistic Regression Classifier"
      [] component_class = "CatBoostClassifier" -> "CatBoost Classifier"
      [] component_class = "ARIMARegressor" -> "ARIMA Regressor"
      [] component_class = "RandomForestRegressor"
             -> "Random Forest Regressor"
      [] component_class = "VARMAXRegressor" -> "VARMAX Regressor"

\* get_estimators(problem_type): the estimator classes of a problem type
get_estimators(problem_type) ==
    CASE problem_type \in {"binary", "multiclass", "time series binary",
                           "time series multiclass"}
             -> {"RandomForestClassifier", "LogisticRegressionClassifier",
                 "CatBoostClassifier"}
      [] problem_type = "regression" -> {"RandomForestRegressor"}
      [] problem_type = "time series regression"
             -> {"RandomForestRegressor", "ARIMARegressor"}
      [] problem_type = "multiseries time series regression"
             -> {"VARMAXRegressor"}

\* PipelineBase._make_component_dict_from_component_list, from node n: a
\* node takes X from the node before it (the graph input "X" for the first)
\* and y from the last node before it that alters the target (the graph
\* input "y" when there is none).
RECURSIVE wire_components(_, _, _)
wire_components(names, n, component_dict) ==
    IF n > Len(names) THEN component_dict
    ELSE LET modifiers == {i \in 1..(n - 1) : modifies_target(names[i])}
             most_recent_target ==
                 IF modifiers = {} THEN "y"
                 ELSE names[CHOOSE i \in modifiers :
                                \A j \in modifiers : j <= i] \o ".y"
             most_recent_features ==
                 IF n = 1 THEN "X" ELSE names[n - 1] \o ".x"
         IN  wire_components(names, n + 1,
                 Append(component_dict,
                        Entry(names[n], <<names[n], most_recent_features,
                                          most_recent_target>>)))

make_component_dict_from_component_list(component_list) ==
    wire_components([i \in 1..Len(component_list) |->
                        component_name(component_list[i])], 1, <<>>)

\* " + ".join(names)
RECURSIVE join_names(_)
join_names(names) ==
    IF Len(names) = 1 THEN names[1]
    ELSE names[1] \o " + " \o join_names(Tail(names))

\* The pipeline a pipeline class makes of a component graph that has no
\* estimator: its name is custom_name or, without one, its summary; its
\* parameters are those given for its components.
pipeline_of(component_graph, parameters, custom_name) ==
    [name |-> IF custom_name # "" THEN custom_name
              ELSE "Pipeline w/ " \o join_names(DictKeys(component_graph)),
     component_dict |-> component_graph,
     compute_order |-> DictKeys(component_graph),
     parameters |->
         SelectSeq(parameters,
                   LAMBDA e : In(e.k, DictKeys(component_graph)))]

\* X.ww[columns]: the schema of the columns with these names
ww_columns(X, names) ==
    [logical_types |->
         {X.columns[j].logical_type :
             j \in {i \in 1..Len(X.columns) : In(X.columns[i].name, names)}},
     all_null_cols |-> FALSE,
     freq |-> X.freq, seasonal_period |-> X.seasonal_period]

\* list.remove(x): without the first x
remove_first(list, x) ==
    LET first == CHOOSE i \in 1..Len(list) :
                    list[i] = x /\ \A j \in 1..(i - 1) : list[j] # x
    IN  SubSeq(list, 1, first - 1) \o SubSeq(list, first + 1, Len(list))

\* _get_pipeline_base_class: a pipeline class for every problem type
get_pipeline_base_class(problem_type) ==
    IF problem_type \in ProblemTypes THEN problem_type ELSE ""

Made(status, component_graph, selections) ==
    [status |-> status, component_graph |-> component_graph,
     selections |-> selections]

\* The arguments of a call of _get_preprocessing_components
selector_arguments(a, X, problem_type) ==
    [X |-> X, problem_type |-> problem_type,
     estimator_class |-> a.estimator, sampler_name |-> a.sampler_name,
     exclude_featurizers |-> a.exclude_featurizers,
     include_decomposer |-> a.include_decomposer]

\* The components of the branch of the features not known in advance
not_known_in_advance_components(preprocessing_components) ==
    LET with_select == <<"SelectColumns">> \o preprocessing_components
    IN  IF /\ ~In("Oversampler", with_select)
           /\ In("DropNaNRowsTransformer", with_select)
        THEN remove_first(with_select, "DropNaNRowsTransformer")
        ELSE with_select

\* if need_drop_nan: component_dict[estimator.name] = [estimator,
\*     last_component_name + ".x", last_component_name + ".y"]
finish_graph(component_graph, estimator, need_drop_nan) ==
    IF need_drop_nan
    THEN LET last_component_name == Last(DictKeys(component_graph))
         IN  DictSet(component_graph, component_name(estimator),
                     <<component_name(estimator),
                       last_component_name \o ".x",
                       last_component_name \o ".y">>)
    ELSE component_graph

\* The known-in-advance part of _make_pipeline_time_series, after the
\* first selection.  first = the result of that selection.
merge_known_in_advance(a, first) ==
    LET pipeline ==
            pipeline_of(make_component_dict_from_component_list(
                            not_known_in_advance_components(first.components)),
                        a.parameters, "")
        second == get_preprocessing_components(first.heap,
                      selector_arguments(a,
                          ww_columns(a.X, a.known_in_advance), "regression"))
        kina_pipeline ==
            pipeline_of(make_component_dict_from_component_list(
                            <<"SelectColumns">> \o second.components),
                        a.parameters, "Pipeline")
        need_drop_nan == estimator_unable_to_handle_nans(a.estimator)
        pre_pipeline_components ==
            IF a.features
            THEN <<Entry("DFS Transformer", <<"DFS Transformer", "X", "y">>)>>
            ELSE <<>>
        h == second.heap \o <<pre_pipeline_components, a.parameters>>
        merged ==
            make_pipeline_from_multiple_graphs(h,
                [input_pipelines |-> <<pipeline, kina_pipeline>>,
                 estimator |-> IF need_drop_nan
                               THEN component_name("DropNaNRowsTransformer")
                               ELSE component_name(a.estimator),
                 problem_type |-> a.problem_type,
                 parameters |-> Len(second.heap) + 2,
                 pre_pipeline_components |->
                     IF a.features THEN Len(second.heap) + 1 ELSE 0,
                 post_pipelines_components |-> 0,
                 sub_pipeline_names |->
                     DictSet(<<Entry(kina_pipeline.name, "Known In Advance")>>,
                             pipeline.name, "Not Known In Advance")])
    IN  IF second.status # "ok" THEN Made(second.status, <<>>, 2)
        ELSE IF merged.status # "ok" THEN Made(merged.status, <<>>, 2)
        ELSE Made("ok",
                  finish_graph(merged.heap[merged.component_graph],
                               a.estimator, need_drop_nan),
                  2)

\* a = the arguments of make_pipeline, h the heap with the caller's list
\* exclude_featurizers
make_pipeline_time_series(h, a) ==
    LET column_names == [j \in 1..Len(a.X.columns) |-> a.X.columns[j].name]
        not_known_in_advance ==
            SelectSeq(column_names, LAMBDA c : ~In(c, a.known_in_advance))
        X_not_known_in_advance ==
            IF a.known_in_advance # <<>>
            THEN ww_columns(a.X, not_known_in_advance)
            ELSE ww_columns(a.X, column_names)
        first == get_preprocessing_components(h,
                     selector_arguments(a, X_not_known_in_advance,
                                        a.problem_type))
        dfs_transformer == IF a.features THEN <<"DFSTransformer">> ELSE <<>>
    IN  IF first.status # "ok" THEN Made(first.status, <<>>, 1)
        ELSE IF a.known_in_advance # <<>>
        THEN merge_known_in_advance(a, first)
        ELSE Made("ok",
                  make_component_dict_from_component_list(
                      dfs_transformer \o first.components \o <<a.estimator>>),
                  1)

\* The part of make_pipeline for the problem types that are no time series
make_pipeline_linear(h, a) ==
    LET column_names == [j \in 1..Len(a.X.columns) |-> a.X.columns[j].name]
        selection == get_preprocessing_components(h,
                         [selector_arguments(a, ww_columns(a.X, column_names),
                                             a.problem_type)
                              EXCEPT !.include_decomposer = TRUE])
        dfs_transformer == IF a.features THEN <<"DFSTransformer">> ELSE <<>>
        estimator_component ==
            IF a.use_estimator THEN <<a.estimator>> ELSE <<>>
    IN  IF selection.status # "ok" THEN Made(selection.status, <<>>, 1)
        ELSE Made("ok",
                  make_component_dict_from_component_list(
                      dfs_transformer \o a.extra_components_before
                          \o selection.components \o a.extra_components_after
                          \o estimator_component),
                  1)

\* The configurations make_pipeline refuses with ValueError; estimator ""
\* is None
rejected(a) ==
    /\ a.estimator # ""
    /\ \/ a.estimator \notin get_estimators(a.problem_type)
       \/ ~is_classification(a.problem_type) /\ a.sampler_name # ""

make_pipeline(h, a) ==
    IF rejected(a) THEN Made("ValueError", <<>>, 0)
    ELSE IF is_time_series(a.problem_type)
    THEN make_pipeline_time_series(h, a)
    ELSE make_pipeline_linear(h, a)

(***************************************************************************)
(* The calls of make_pipeline.  A call without estimator is one the        *)
(* selector can serve: no time series, no Datetime column, and             *)
(* use_estimator is False.  The arguments a branch does not read have      *)
(* their defaults.                                                         *)
(***************************************************************************)
Column(name, logical_type) == [name |-> name, logical_type |-> logical_type]

Frames ==
    {[columns |-> <<Column("num", "Double"), Column("cat", "Categorical")>>,
      freq |-> "D", seasonal_period |-> 7],
     [columns |-> <<Column("num", "Double"), Column("date", "Datetime"),
                    Column("cat", "Categorical")>>,
      freq |-> "", seasonal_period |-> NoPeriod]}

KnownInAdvance == {<<>>, <<"cat">>, <<"cat", "num">>}

PipelineEstimators ==
    EstimatorClasses \cup {"RandomForestRegressor", "VARMAXRegressor", ""}

PipelineParameters ==
    <<Entry("pipeline", <<Entry("gap", "1")>>),
      Entry("Imputer", <<Entry("numeric_impute_strategy", "median")>>)>>

NoPipeline == Made("none", <<>>, 0)

MakePipelineInit ==
    /\ \E X \in Frames, problem_type \in ProblemTypes,
          estimator \in PipelineEstimators,
          sampler_name \in {"", "Undersampler", "Oversampler"},
          known_in_advance \in KnownInAdvance,
          extra_components_before \in {<<>>, <<"TargetImputer">>},
          exclude_featurizers \in {<<>>, <<"TimeSeriesFeaturizer">>} :
          \E features \in BOOLEAN, use_estimator \in BOOLEAN,
             include_decomposer \in BOOLEAN :
             /\ estimator = "" =>
                   /\ ~is_time_series(problem_type)
                   /\ ~use_estimator
                   /\ \A j \in 1..Len(X.columns) :
                         X.columns[j].logical_type # "Datetime"
             /\ is_time_series(problem_type) =>
                   extra_components_before = <<>> /\ use_estimator
             /\ ~is_time_series(problem_type) =>
                   known_in_advance = <<>> /\ include_decomposer
             /\ args = [X |-> X, problem_type |-> problem_type,
                        estimator |-> estimator,
                        parameters |-> PipelineParameters,
                        sampler_name |-> sampler_name,
                        extra_components_before |-> extra_components_before,
                        extra_components_after |-> <<>>,
                        use_estimator |-> use_estimator,
                        known_in_advance |-> known_in_advance,
                        features |-> features,
                        exclude_featurizers |->
                            IF exclude_featurizers = <<>> THEN 0
                            ELSE ExcludeRef,
                        include_decomposer |-> include_decomposer]
             /\ heap = <<exclude_featurizers>>
             /\ original = [exclude_featurizers |-> exclude_featurizers]
    /\ caller = <<>>
    /\ entry = <<>>
    /\ result = NoPipeline
    /\ ncalls = 0

MakePipeline ==
    /\ ncalls = 0
    /\ result' = make_pipeline(heap, args)
    /\ ncalls' = 1
    /\ UNCHANGED <<heap, caller, args, original, entry>>

MakePipelineNext == MakePipeline

MakePipelineSpec == MakePipelineInit /\ [][MakePipelineNext]_vars

(***************************************************************************)
(* Vocabulary of the properties of make_pipeline                           *)
(***************************************************************************)
Called == ncalls = 1

EstimatorGiven == args.estimator # ""

InvalidEstimator ==
    EstimatorGiven /\ args.estimator \notin get_estimators(args.problem_type)

SamplingUnsupported ==
    args.sampler_name # "" /\ ~is_classification(args.problem_type)

\* ValueError, and nothing was selected and no graph built
Refused ==
    /\ result.status = "ValueError"
    /\ result.selections = 0
    /\ result.component_graph = <<>>

(***************************************************************************)
(* C23: make_pipeline rejects with a ValueError, before it selects any     *)
(* component or builds any graph, every call whose estimator is not valid  *)
(* for the problem type and every call that names a sampler for a problem  *)
(* type that is not classification, whatever the other arguments are.      *)
(***************************************************************************)
C23_InvalidConfigurationsRefused ==
    (Called /\ (InvalidEstimator \/ SamplingUnsupported)) => Refused

\* The same with an estimator: the two checks are made only then.
RefusedWithEstimator ==
    (Called /\ EstimatorGiven /\ (InvalidEstimator \/ SamplingUnsupported))
        => Refused

(***************************************************************************)
(* InvalidTargetDataCheck, as its tests describe it                        *)
(* (tests/data_checks_tests/test_invalid_target_data_check.py).  A target  *)
(* is a sequence of values in which NaN is a null value; rows are numbered *)
(* from 0 as the default index numbers them.                               *)
(***************************************************************************)
UpperCase == <<"D", "E", "I", "M", "O", "P", "R", "T", "U">>

LowerCase == <<"d", "e", "i", "m", "o", "p", "r", "t", "u">>

\* str.lower() of one character
lower_char(c) ==
    IF \E k \in 1..Len(UpperCase) : UpperCase[k] = c
    THEN LowerCase[CHOOSE k \in 1..Len(UpperCase) : UpperCase[k] = c]
    ELSE c

RECURSIVE lower(_)
\* str.lower()
lower(s) ==
    IF s = "" THEN ""
    ELSE lower_char(SubSeq(s, 1, 1)) \o lower(SubSeq(s, 2, Len(s)))

\* the index labels of the null rows, in order
null_rows_of(y) ==
    LET positions == SelectSeq([i \in 1..Len(y) |-> i], LAMBDA i : y[i] = NaN)
    IN  [k \in 1..Len(positions) |-> positions[k] - 1]

NoRows == <<>>

DataCheckActionOption(action_code, categories, default_value, is_target, rows) ==
    [action_code |-> action_code, categories |-> categories,
     default_value |-> default_value, is_target |-> is_target, rows |-> rows]

DataCheckMessage(level, message_code, rows, action_options) ==
    [level |-> level, message_code |-> message_code, rows |-> rows,
     action_options |-> action_options]

\* The constructor: a null_strategy that is neither "impute" nor "drop" in
\* any case is a ValueError.
InvalidTargetDataCheck(problem_type, null_strategy) ==
    IF lower(null_strategy) \notin {"impute", "drop"}
    THEN [status |-> "ValueError", problem_type |-> problem_type,
          null_strategy |-> null_strategy]
    ELSE [status |-> "ok", problem_type |-> problem_type,
          null_strategy |-> null_strategy]

target_has_null_options_case_sensitive(self, rows) ==
    IF self.null_strategy = "impute"
    THEN << DataCheckActionOption("IMPUTE_COL",
               IF is_regression(self.problem_type)
               THEN <<"mean", "most_frequent">> ELSE <<"most_frequent">>,
               IF is_regression(self.problem_type)
               THEN "mean" ELSE "most_frequent",
               TRUE, NoRows) >>
    ELSE IF self.null_strategy = "drop"
    THEN << DataCheckActionOption("DROP_ROWS", <<>>, "", TRUE, rows) >>
    ELSE <<>>

\* The action options of the TARGET_HAS_NULL error.
target_has_null_options(self, rows) ==
    IF lower(self.null_strategy) = "impute"
    THEN << DataCheckActionOption("IMPUTE_COL",
               IF is_regression(self.problem_type)
               THEN <<"mean", "most_frequent">> ELSE <<"most_frequent">>,
               IF is_regression(self.problem_type)
               THEN "mean" ELSE "most_frequent",
               TRUE, NoRows) >>
    ELSE IF lower(self.null_strategy) = "drop"
    THEN << DataCheckActionOption("DROP_ROWS", <<>>, "", TRUE, rows) >>
    ELSE <<>>

\* The messages about null values: an empty or fully null target is one
\* error, a partly null one the TARGET_HAS_NULL error.
check_target_has_nan(self, y) ==
    LET rows == null_rows_of(y) IN
    IF Len(rows) = Len(y)
    THEN << DataCheckMessage("error", "TARGET_IS_EMPTY_OR_FULLY_NULL",
                             NoRows, <<>>) >>
    ELSE IF Len(rows) > 0
    THEN << DataCheckMessage("error", "TARGET_HAS_NULL", rows,
                             target_has_null_options(self, rows)) >>
    ELSE <<>>

\* the values of the target that are not null
dropna(y) == SelectSeq(y, LAMBDA v : v # NaN)

unique(y) == {y[i] : i \in 1..Len(y)}

\* The messages about the classes of a classification target.
check_classification_target(self, y) ==
    LET classes == unique(dropna(y))
        counts == [c \in classes |->
                      Cardinality({i \in 1..Len(y) : y[i] = c})]
    IN  IF self.problem_type \in {"binary", "time series binary"}
        THEN (IF Cardinality(classes) # 2
              THEN << DataCheckMessage("error",
                         "TARGET_BINARY_NOT_TWO_UNIQUE_VALUES", NoRows, <<>>) >>
              ELSE <<>>)
        ELSE IF self.problem_type \in {"multiclass", "time series multiclass"}
        THEN (IF \E c \in classes : counts[c] < 2
              THEN << DataCheckMessage("error",
                         "TARGET_MULTICLASS_NOT_TWO_EXAMPLES_PER_CLASS",
                         NoRows, <<>>) >>
              ELSE <<>>)
             \o (IF Cardinality(classes) <= 2
                 THEN << DataCheckMessage("error",
                            "TARGET_MULTICLASS_NOT_ENOUGH_CLASSES",
                            NoRows, <<>>) >>
                 ELSE <<>>)
             \o (IF Cardinality(classes) * 100 >= 5 * Len(y)
                 THEN << DataCheckMessage("warning",
                            "TARGET_MULTICLASS_HIGH_UNIQUE_CLASS",
                            NoRows, <<>>) >>
                 ELSE <<>>)
        ELSE <<>>

\* InvalidTargetDataCheck.validate(X, y): the null check first; nothing else
\* is checked of an empty or fully null target.
validate(self, y) ==
    LET messages == check_target_has_nan(self, y) IN
    IF \E k \in 1..Len(messages) :
          messages[k].message_code = "TARGET_IS_EMPTY_OR_FULLY_NULL"
    THEN messages
    ELSE messages \o check_classification_target(self, y)

(***************************************************************************)
(* The data check as a state machine: a check is constructed for a problem *)
(* type and a null strategy, then validates one target.                    *)
(***************************************************************************)
MaxTarget == 3

NullableTargets(n) == UNION {[1..k -> {NaN, 0, 1}] : k \in 1..n}

NullStrategies == {"impute", "Impute", "IMPUTE", "drop", "DROP", "Drop", "dr"}

NoCheck == [status |-> "none", problem_type |-> "", null_strategy |-> ""]

NoMessages == [status |-> "none", messages |-> <<>>]

TargetCheckInit ==
    /\ \E y \in NullableTargets(MaxTarget), problem_type \in ProblemTypes,
          null_strategy \in NullStrategies :
          /\ args = [y |-> y, problem_type |-> problem_type,
                     null_strategy |-> null_strategy]
          /\ original = args
    /\ heap = <<>>
    /\ caller = <<>>
    /\ entry = NoCheck
    /\ result = NoMessages
    /\ ncalls = 0

Construct ==
    /\ ncalls = 0
    /\ entry' = InvalidTargetDataCheck(args.problem_type, args.null_strategy)
    /\ ncalls' = 1
    /\ UNCHANGED <<heap, caller, args, original, result>>

Validate ==
    /\ ncalls = 1
    /\ entry.status = "ok"
    /\ result' = [status |-> "ok", messages |-> validate(entry, args.y)]
    /\ ncalls' = 2
    /\ UNCHANGED <<heap, caller, args, original, entry>>

TargetCheckNext == Construct \/ Validate

TargetCheckSpec == TargetCheckInit /\ [][TargetCheckNext]_vars

(***************************************************************************)
(* Vocabulary of the properties of the target check                        *)
(***************************************************************************)
Validated == ncalls = 2

NullRows == {i - 1 : i \in {j \in 1..Len(args.y) : args.y[j] = NaN}}

PartlyNull == NullRows # {} /\ Cardinality(NullRows) < Len(args.y)

FirstMessage == result.messages[1]

RowsListed(rows) ==
    /\ {rows[k] : k \in 1..Len(rows)} = NullRows
    /\ \A k \in 1..(Len(rows) - 1) : rows[k] < rows[k + 1]

\* the null strategy is this word in some mix of upper and lower case
StrategyIs(word) ==
    /\ Len(args.null_strategy) = Len(word)
    /\ \A k \in 1..Len(word) :
          \/ SubSeq(args.null_strategy, k, k) = SubSeq(word, k, k)
          \/ \E u \in 1..Len(UpperCase) :
                /\ SubSeq(args.null_strategy, k, k) = UpperCase[u]
                /\ SubSeq(word, k, k) = LowerCase[u]

OneOption == Len(FirstMessage.action_options) = 1

Option == FirstMessage.action_options[1]

(***************************************************************************)
(* C24: validating a target of which some but not all values are null      *)
(* gives as first message one TARGET_HAS_NULL error that lists the null    *)
(* rows and has exactly one action option, chosen by the null strategy     *)
(* whatever its case: "impute" an IMPUTE_COL option on the target whose    *)
(* default strategy is "mean" for regression problems and "most_frequent"  *)
(* for the others, "drop" a DROP_ROWS option over the null rows.           *)
(***************************************************************************)
C24_NullTargetReported ==
    (Validated /\ PartlyNull) =>
        /\ Len(result.messages) >= 1
        /\ FirstMessage.level = "error"
        /\ FirstMessage.message_code = "TARGET_HAS_NULL"
        /\ RowsListed(FirstMessage.rows)
        /\ \A k \in 2..Len(result.messages) :
              result.messages[k].message_code # "TARGET_HAS_NULL"
        /\ OneOption
        /\ StrategyIs("impute") =>
              /\ Option.action_code = "IMPUTE_COL"
              /\ Option.is_target
              /\ Option.default_value =
                    (IF is_regression(args.problem_type)
                     THEN "mean" ELSE "most_frequent")
        /\ StrategyIs("drop") =>
              /\ Option.action_code = "DROP_ROWS"
              /\ RowsListed(Option.rows)
        /\ StrategyIs("impute") \/ StrategyIs("drop")

C24_Witness ==
    /\ Validated
    /\ PartlyNull
    /\ Cardinality(NullRows) = 2
    /\ args.null_strategy = "DROP"
    /\ Len(result.messages) > 1
    /\ Option.action_code = "DROP_ROWS"

(***************************************************************************)
(* Vocabulary of the properties of the known-in-advance graph              *)
(***************************************************************************)
StartsWith(s, prefix) ==
    /\ Len(s) >= Len(prefix)
    /\ SubSeq(s, 1, Len(prefix)) = prefix

NotKnownBranch == "Not Known In Advance Pipeline - "

KnownBranch == "Known In Advance Pipeline - "

\* A valid time series call with features known in advance.
KnownInAdvanceCall ==
    /\ Called
    /\ is_time_series(args.problem_type)
    /\ args.known_in_advance # <<>>
    /\ EstimatorGiven
    /\ ~InvalidEstimator
    /\ ~SamplingUnsupported

\* the positions in the graph of the nodes of a branch
BranchNodes(branch) ==
    {i \in 1..Len(Graph) : StartsWith(Graph[i].k, branch)}

FirstOf(positions) == CHOOSE i \in positions : \A j \in positions : i <= j

LastOf(positions) == CHOOSE i \in positions : \A j \in positions : j <= i

StartsWithSelectColumns(branch) ==
    /\ BranchNodes(branch) # {}
    /\ Graph[FirstOf(BranchNodes(branch))].k =
          branch \o "Select Columns Transformer"
    /\ Graph[FirstOf(BranchNodes(branch))].v[1] = "Select Columns Transformer"

\* the inputs of the node at a position
InputsOf(i) == {Graph[i].v[j] : j \in 2..Len(Graph[i].v)}

\* no node of the branch takes an output of a node of the other branch
Apart(branch, other) ==
    \A i \in BranchNodes(branch) : \A ref \in InputsOf(i) :
        ~StartsWith(ref, other)

FinalX(branch) == Graph[LastOf(BranchNodes(branch))].k \o ".x"

BothFinalX == {FinalX(NotKnownBranch), FinalX(KnownBranch)}

XInputsOf(i) == {ref \in InputsOf(i) : EndsWith(ref, ".x")}

TwoBranches ==
    /\ StartsWithSelectColumns(NotKnownBranch)
    /\ StartsWithSelectColumns(KnownBranch)
    /\ Apart(NotKnownBranch, KnownBranch)
    /\ Apart(KnownBranch, NotKnownBranch)

EstimatorLast ==
    /\ Graph # <<>>
    /\ Last(Graph).k = component_name(args.estimator)
    /\ Last(Graph).v[1] = component_name(args.estimator)

\* the positions of the nodes that take the final output of both branches
Joins == {i \in 1..Len(Graph) : BothFinalX \subseteq InputsOf(i)}

JoinedByDropNaNRows ==
    /\ \E i \in 1..Len(Graph) :
          /\ Joins = {i}
          /\ Graph[i].k = "Drop NaN Rows Transformer"
          /\ Graph[i].v[1] = "Drop NaN Rows Transformer"
          /\ XInputsOf(i) = BothFinalX
    /\ Last(Graph).v = <<component_name(args.estimator),
                         "Drop NaN Rows Transformer.x",
                         "Drop NaN Rows Transformer.y">>

JoinedByEstimator ==
    /\ Joins = {Len(Graph)}
    /\ XInputsOf(Len(Graph)) = BothFinalX

KnownInAdvanceGraph ==
    /\ result.status = "ok"
    /\ result.selections = 2
    /\ TwoBranches
    /\ EstimatorLast
    /\ IF estimator_unable_to_handle_nans(args.estimator)
       THEN JoinedByDropNaNRows
       ELSE JoinedByEstimator

(***************************************************************************)
(* C25: a time series make_pipeline with features known in advance runs    *)
(* the selection once per feature subset and merges the two pipelines into *)
(* one graph of two parallel branches, "Not Known In Advance Pipeline -"   *)
(* and "Known In Advance Pipeline -", each starting with a Select Columns  *)
(* node; the estimator is the last node; if the estimator cannot handle    *)
(* NaNs one Drop NaN Rows node takes the final ".x" of both branches and   *)
(* the estimator takes that node's ".x" and ".y", otherwise the estimator  *)
(* takes the final ".x" of both branches.                                  *)
(***************************************************************************)
C25_KnownInAdvanceBranches == KnownInAdvanceCall => KnownInAdvanceGraph

\* The same for the time series types that have one series.
KnownInAdvanceBranchesOfOneSeries ==
    (KnownInAdvanceCall /\ ~is_multiseries(args.problem_type))
        => KnownInAdvanceGraph

(***************************************************************************)
(* C26: in a classification graph the y input of the final estimator, and  *)
(* of the first post-component if there is one, is the ".y" output of a    *)
(* node and never the graph input "y", also when the last input pipeline   *)
(* has no label encoder and no node that takes another node's ".y".        *)
(***************************************************************************)
C26_EncodedTargetReachesEstimator ==
    (Assembled /\ Classification) =>
        /\ ResolvedY # "y"
        /\ EndsWith(ResolvedY, ".y")
        /\ Last(EstimatorNode) # "y"

\* The raw target is resolved only for a last pipeline without ".y"
\* references whose last node does not modify the target.
RawTargetOnlyWithoutYReferences ==
    (Assembled /\ Classification /\ ResolvedY = "y") =>
        /\ YReferences(NumPipelines) = {}
        /\ ~LastNodeModifiesTarget(NumPipelines)

(***************************************************************************)
(* make_pipeline_from_actions (utils.py)                                   *)
(***************************************************************************)
\* for component in component_list:
\*     parameters[component.name] = component.parameters
RECURSIVE parameters_of(_, _)
parameters_of(component_list, parameters) ==
    IF component_list = <<>> THEN parameters
    ELSE parameters_of(Tail(component_list),
                       DictSet(parameters, component_list[1].name,
                               component_list[1].parameters))

FromActions(status, base_class, component_list, parameters) ==
    [status |-> status, base_class |-> base_class,
     component_list |-> component_list, parameters |-> parameters]

\* problem_configuration = <<>> is None.  The result holds what the
\* pipeline class is called with: the names handed to
\* _make_component_dict_from_component_list and the parameters.
make_pipeline_from_actions(problem_type, actions, problem_configuration) ==
    LET made == make_component_list_from_actions(actions)
        parameters == parameters_of(made.components, <<>>)
        base_class == get_pipeline_base_class(problem_type)
    IN  IF made.status # "ok"
        THEN FromActions(made.status, "", <<>>, <<>>)
        ELSE FromActions("ok", base_class,
                 [i \in 1..Len(made.components) |-> made.components[i].name],
                 IF problem_configuration # <<>>
                 THEN DictSet(parameters, "pipeline", problem_configuration)
                 ELSE parameters)

(***************************************************************************)
(* The callers' inputs of make_pipeline_from_actions                       *)
(***************************************************************************)
ImputeFeaturesByMedian ==
    DataCheckAction("IMPUTE_COL",
        [is_target |-> FALSE,
         parameters |->
             [impute_strategies |->
                  <<Entry("b", <<Entry("impute_strategy", "median")>>)>>]])

RegularizeAndImputeOther ==
    DataCheckAction("REGULARIZE_AND_IMPUTE_DATASET",
        [is_target |-> FALSE,
         parameters |-> [time_index |-> "dates",
                         frequency_payload |-> "other payload"]])

PipelineActionPool ==
    {DropCol(<<"b", "a">>), DropRows(<<5, 1, 5>>), ImputeTarget,
     ImputeFeatures, ImputeFeaturesByMedian, ImputeUnparameterized,
     RegularizeAndImpute, RegularizeAndImputeOther}

RECURSIVE PipelineActionLists(_)
PipelineActionLists(n) ==
    IF n = 0 THEN {<<>>}
    ELSE LET shorter == PipelineActionLists(n - 1)
         IN  shorter \cup
             {Append(l, a) : l \in {x \in shorter : Len(x) = n - 1},
                             a \in PipelineActionPool}

ProblemConfigurations == {<<>>, <<Entry("time_index", "dates")>>}

NoFromActions == FromActions("none", "", <<>>, <<>>)

FromActionsInit ==
    /\ \E actions \in PipelineActionLists(MaxActions),
          problem_type \in ProblemTypes,
          problem_configuration \in ProblemConfigurations :
          /\ args = [problem_type |-> problem_type, actions |-> actions,
                     problem_configuration |-> problem_configuration]
          /\ original = args
    /\ heap = <<>>
    /\ caller = <<>>
    /\ entry = <<>>
    /\ result = NoFromActions
    /\ ncalls = 0

MakePipelineFromActions ==
    /\ ncalls = 0
    /\ result' = make_pipeline_from_actions(args.problem_type, args.actions,
                                            args.problem_configuration)
    /\ ncalls' = 1
    /\ UNCHANGED <<heap, caller, args, original, entry>>

FromActionsNext == MakePipelineFromActions

FromActionsSpec == FromActionsInit /\ [][FromActionsNext]_vars

(***************************************************************************)
(* Vocabulary of the properties of make_pipeline_from_actions              *)
(***************************************************************************)
PipelineMade == ncalls = 1 /\ result.status = "ok"

\* the components _make_component_list_from_actions returns for the actions
TranslatedComponents == make_component_list_from_actions(args.actions).components

ParametersHanded(component) ==
    /\ HasKey(result.parameters, component.name)
    /\ DictGet(result.parameters, component.name) = component.parameters

EveryParametersHanded ==
    \A i \in 1..Len(TranslatedComponents) :
        ParametersHanded(TranslatedComponents[i])

DistinctNames ==
    \A i, j \in 1..Len(TranslatedComponents) :
        i # j => TranslatedComponents[i].name # TranslatedComponents[j].name

(***************************************************************************)
(* C27: make_pipeline_from_actions hands the parameters of every component *)
(* that _make_component_list_from_actions returns to the pipeline, also    *)
(* when two of the components have the same name; no component's           *)
(* parameters are overwritten by another's.                                *)
(***************************************************************************)
C27_EveryComponentsParametersHanded ==
    PipelineMade => EveryParametersHanded

\* The same for component lists without two components of one name.
ParametersHandedOfDistinctNames ==
    (PipelineMade /\ DistinctNames) => EveryParametersHanded

\* what stack_X gives for the same wide frame when the series ids are
\* derived from the column names
Derived ==
    stack_X(entry.X, args.series_id, args.time_index, args.starting_index,
            None)

SeriesIdValuesGiven == args.series_id_values # None

(***************************************************************************)
(* C28: stack_X keeps the feature data when series_id_values is supplied:  *)
(* if the wide X has a column besides the time index, the restacked frame  *)
(* has a column per feature besides the series id and the time index, with *)
(* the values it has when the ids are derived from the column names; the   *)
(* frame of time index and series id alone is made only of an X without    *)
(* feature columns.                                                        *)
(***************************************************************************)
C28_FeaturesKeptWithSeriesIdValues ==
    (Restacked /\ HasFeatures /\ SeriesIdValuesGiven) =>
        /\ ColumnNames(result.X) # {"date", "id"}
        /\ \E derived \in Derived :
              derived.status = "ok" =>
                  (result.status = "ok" /\ result.X = derived.frame)

\* With series_id_values the frame is always that of time index and series
\* id alone.
IndexOnlyWithSeriesIdValues ==
    (Restacked /\ SeriesIdValuesGiven) =>
        /\ result.status = "ok"
        /\ ColumnNames(result.X) = {"date", "id"}

(***************************************************************************)
(* Vocabulary of the placement of the drop components                      *)
(***************************************************************************)
DropComponents ==
    Named(result.components, {"DropColumns"})
        \o Named(result.components, {"DropRowsTransformer"})

\* the orders the actions can be put in
Rearrangements ==
    {p \in [1..Len(Actions) -> 1..Len(Actions)] :
        \A i, j \in 1..Len(Actions) : i # j => p[i] # p[j]}

Rearranged(p) == [i \in 1..Len(Actions) |-> Actions[p[i]]]

IsDrop(action) == action.action_code \in {"DROP_COL", "DROP_ROWS"}

\* the actions that are not drops, in order
Others(actions) == SelectSeq(actions, LAMBDA action : ~IsDrop(action))

DropsLast ==
    /\ Len(Named(result.components, {"DropColumns"})) <= 1
    /\ Len(Named(result.components, {"DropRowsTransformer"})) <= 1
    /\ result.components =
          SubSeq(result.components, 1,
                 Len(result.components) - Len(DropComponents))
              \o DropComponents
    /\ \A i \in 1..(Len(result.components) - Len(DropComponents)) :
          result.components[i].name
              \notin {"DropColumns", "DropRowsTransformer"}

(***************************************************************************)
(* C29: wherever the DROP_COL and DROP_ROWS actions stand in the input,    *)
(* the DropColumns component and then the DropRowsTransformer component    *)
(* are the last elements of the output, after every impute or regularize   *)
(* component, and the output is the same for every order of the drop       *)
(* actions among themselves and relative to the other actions.             *)
(***************************************************************************)
C29_DropsLastWhateverTheirOrder ==
    Translated =>
        /\ DropsLast
        /\ \A p \in Rearrangements :
              Others(Rearranged(p)) = Others(Actions) =>
                  make_component_list_from_actions(Rearranged(p)) = result

C29_Witness ==
    /\ Translated
    /\ Actions = <<DropRows(<<5, 1, 5>>), ImputeTarget, DropCol(<<"b", "a">>)>>
    /\ result.components =
          <<Component("TargetImputer", [impute_strategy |-> "most_frequent"]),
            Component("DropColumns", [columns |-> <<"a", "b">>]),
            Component("DropRowsTransformer", [indices_to_drop |-> <<1, 5>>])>>

(***************************************************************************)
(* _make_stacked_ensemble_pipeline (utils.py)                              *)
(*                                                                         *)
(* A dict object is a slot of the heap and a dict argument the number of   *)
(* its slot, 0 for None.  An input pipeline is its component_dict, its     *)
(* parameters and the model family of its last component.                  *)
(***************************************************************************)
\* the nested _make_new_component_name(model_type, component_name, idx):
\* name is its component_name
make_new_ensemble_component_name(model_type, name, idx) ==
    LET idx_str == IF idx # 0 THEN " " \o ToString(idx) ELSE ""
    IN  model_type \o " Pipeline" \o idx_str \o " - " \o name

\* model_family_idx of a pipeline, given the families of those before it
model_family_idx(used_model_families, family) ==
    IF Count(used_model_families, family) > 0
    THEN Count(used_model_families, family) + 1
    ELSE 0

\* _set_cache_data: reads cached_data[model_family][hashes][name] for every
\* hash of the family.  Returns [status, cached_component_instances].
RECURSIVE set_cache_data(_, _, _, _, _)
set_cache_data(by_hash, n, cached_component_instances, new_component_name, name) ==
    IF n > Len(by_hash)
    THEN [status |-> "ok",
          cached_component_instances |-> cached_component_instances]
    ELSE IF ~HasKey(by_hash[n].v, name)
    THEN [status |-> "KeyError",
          cached_component_instances |-> cached_component_instances]
    ELSE set_cache_data(by_hash, n + 1,
             DictSet(cached_component_instances, by_hash[n].k,
                     DictSet(DictGetOrEmpty(cached_component_instances,
                                            by_hash[n].k),
                             new_component_name,
                             DictGet(by_hash[n].v, name))),
             new_component_name, name)

\* One input reference of a node (an item of its list at position > 0).
new_ensemble_item(problem_type, family, idx, item) ==
    IF item \notin {"X", "y"}
    THEN make_new_ensemble_component_name(family, item, idx)
    ELSE IF item = "y"
    THEN (IF is_classification(problem_type) THEN "Label Encoder.y" ELSE "y")
    ELSE item

\* ensemble_y after the items of a node: the renamed last ".y" item, if any
RECURSIVE ensemble_y_after(_, _, _, _, _)
ensemble_y_after(component_list, i, family, idx, ensemble_y) ==
    IF i > Len(component_list) THEN ensemble_y
    ELSE ensemble_y_after(component_list, i + 1, family, idx,
             IF EndsWith(component_list[i], ".y")
             THEN make_new_ensemble_component_name(family, component_list[i],
                                                   idx)
             ELSE ensemble_y)

\* The loop over the nodes of one input pipeline, from node n.
\* st = [status, heap, component_graph, cached_component_instances,
\*       final_component, ensemble_y]; ctx = [pipeline, problem_type, idx,
\* parameters, cached_data]
RECURSIVE ensemble_nodes(_, _, _)
ensemble_nodes(ctx, n, st) ==
    IF n > Len(ctx.pipeline.component_dict) \/ st.status # "ok" THEN st
    ELSE LET name == ctx.pipeline.component_dict[n].k
             component_list == ctx.pipeline.component_dict[n].v
             family == ctx.pipeline.model_family
             new_component_name ==
                 make_new_ensemble_component_name(family, name, ctx.idx)
             cached ==
                 IF HasKey(ctx.cached_data, family)
                 THEN set_cache_data(DictGet(ctx.cached_data, family), 1,
                                     st.cached_component_instances,
                                     new_component_name, name)
                 ELSE [status |-> "ok",
                       cached_component_instances |->
                           st.cached_component_instances]
             new_list ==
                 [i \in 1..Len(component_list) |->
                     IF i = 1 THEN component_list[1]
                     ELSE new_ensemble_item(ctx.problem_type, family, ctx.idx,
                                            component_list[i])]
         IN  IF cached.status # "ok"
             THEN [st EXCEPT !.status = cached.status]
             ELSE ensemble_nodes(ctx, n + 1,
                     [status |-> "ok",
                      heap |-> [st.heap EXCEPT ![ctx.parameters] =
                                   DictSet(@, new_component_name,
                                       DictGetOrEmpty(ctx.pipeline.parameters,
                                                      name))],
                      component_graph |->
                          DictSet(st.component_graph, new_component_name,
                                  new_list),
                      cached_component_instances |->
                          cached.cached_component_instances,
                      final_component |-> new_component_name,
                      ensemble_y |->
                          ensemble_y_after(component_list, 2, family, ctx.idx,
                                           st.ensemble_y)])

\* The loop over the input pipelines, from pipeline n.
\* st = the state of ensemble_nodes with final_components and
\* used_model_families
RECURSIVE ensemble_pipelines(_, _, _)
ensemble_pipelines(ctx, n, st) ==
    IF n > Len(ctx.input_pipelines) \/ st.status # "ok" THEN st
    ELSE LET pipeline == ctx.input_pipelines[n]
             done == ensemble_nodes(
                         [pipeline |-> pipeline,
                          problem_type |-> ctx.problem_type,
                          idx |-> model_family_idx(st.used_model_families,
                                                   pipeline.model_family),
                          parameters |-> ctx.parameters,
                          cached_data |-> ctx.cached_data],
                         1,
                         [status |-> "ok", heap |-> st.heap,
                          component_graph |-> st.component_graph,
                          cached_component_instances |->
                              st.cached_component_instances,
                          final_component |-> "", ensemble_y |-> "y"])
         IN  ensemble_pipelines(ctx, n + 1,
                 [status |-> done.status, heap |-> done.heap,
                  component_graph |-> done.component_graph,
                  cached_component_instances |->
                      done.cached_component_instances,
                  final_component |-> done.final_component,
                  ensemble_y |-> done.ensemble_y,
                  final_components |->
                      Append(st.final_components, done.final_component),
                  used_model_families |->
                      Append(st.used_model_families, pipeline.model_family)])

\* parameters = label_encoder_params or {}
\* Returns the heap and the reference bound to parameters.
bind_parameters(h, label_encoder_params) ==
    IF label_encoder_params # 0 /\ h[label_encoder_params] # <<>>
    THEN [heap |-> h, ref |-> label_encoder_params]
    ELSE [heap |-> Append(h, <<>>), ref |-> Len(h) + 1]

\* The parameters before the loop: for classification the bound dict is
\* updated in place, otherwise parameters is bound to a new dict.
ensemble_parameters(h, label_encoder_params, problem_type, n_jobs) ==
    LET bound == bind_parameters(h, label_encoder_params)
    IN  IF is_classification(problem_type)
        THEN [heap |-> [bound.heap EXCEPT ![bound.ref] =
                           DictUpdate(@, <<Entry("Stacked Ensemble Classifier",
                                                 <<Entry("n_jobs", n_jobs)>>)>>)],
              ref |-> bound.ref,
              estimator |-> "Stacked Ensemble Classifier"]
        ELSE [heap |-> Append(bound.heap,
                           <<Entry("Stacked Ensemble Regressor",
                                   <<Entry("n_jobs", n_jobs)>>)>>),
              ref |-> Len(bound.heap) + 1,
              estimator |-> "Stacked Ensemble Regressor"]

Ensemble(status, h, parameters, estimator, component_graph, cached_component_instances) ==
    [status |-> status, heap |-> h, parameters |-> parameters,
     estimator |-> estimator, component_graph |-> component_graph,
     cached_component_instances |-> cached_component_instances]

\* a = [input_pipelines, problem_type, n_jobs, cached_data,
\* label_encoder_params]; cached_data = <<>> is None or an empty dict.
\* Returns the heap after the call and what the pipeline class is given.
make_stacked_ensemble_pipeline(h, a) ==
    LET component_graph ==
            IF is_classification(a.problem_type)
            THEN <<Entry("Label Encoder", <<"Label Encoder", "X", "y">>)>>
            ELSE <<>>
        p == ensemble_parameters(h, a.label_encoder_params, a.problem_type,
                                 a.n_jobs)
        done == ensemble_pipelines(
                    [input_pipelines |-> a.input_pipelines,
                     problem_type |-> a.problem_type,
                     parameters |-> p.ref, cached_data |-> a.cached_data],
                    1,
                    [status |-> "ok", heap |-> p.heap,
                     component_graph |-> component_graph,
                     cached_component_instances |-> <<>>,
                     final_component |-> "", ensemble_y |-> "y",
                     final_components |-> <<>>, used_model_families |-> <<>>])
    IN  IF a.problem_type \notin {"binary", "multiclass", "regression"}
        THEN Ensemble("KeyError", p.heap, 0, "", <<>>, <<>>)
        ELSE IF done.status # "ok"
        THEN Ensemble(done.status, done.heap, 0, "", <<>>, <<>>)
        ELSE IF a.input_pipelines = <<>>
        THEN Ensemble("NameError", done.heap, 0, "", <<>>, <<>>)
        ELSE Ensemble("ok", done.heap, p.ref, p.estimator,
                 DictSet(done.component_graph, p.estimator,
                         <<p.estimator>>
                             \o [i \in 1..Len(done.final_components) |->
                                    done.final_components[i] \o ".x"]
                             \o <<done.ensemble_y>>),
                 done.cached_component_instances)

(***************************************************************************)
(* The callers' inputs of _make_stacked_ensemble_pipeline                  *)
(***************************************************************************)
ForestPipeline ==
    [model_family |-> "Random Forest",
     component_dict |->
         <<Entry("Imputer", <<"Imputer", "X", "y">>),
           Entry("Random Forest Classifier",
                 <<"Random Forest Classifier", "Imputer.x", "y">>)>>,
     parameters |->
         <<Entry("Imputer", <<Entry("numeric_impute_strategy", "mean")>>)>>]

LinearPipeline ==
    [model_family |-> "Linear",
     component_dict |->
         <<Entry("Label Encoder", <<"Label Encoder", "X", "y">>),
           Entry("Logistic Regression Classifier",
                 <<"Logistic Regression Classifier", "Label Encoder.x",
                   "Label Encoder.y">>)>>,
     parameters |-> <<>>]

EnsemblePipelines == {ForestPipeline, LinearPipeline}

EnsemblePipelineLists(n) == UNION {[1..k -> EnsemblePipelines] : k \in 1..n}

EnsembleProblemTypes ==
    {"binary", "multiclass", "regression", "time series binary"}

NJobs == {-1, 2}

LabelEncoderParams ==
    {<<>>, <<Entry("Label Encoder", <<Entry("positive_class", "1")>>)>>}

CachedData ==
    {<<>>,
     <<Entry("Random Forest",
             <<Entry("hash",
                     <<Entry("Imputer", "trained Imputer"),
                       Entry("Random Forest Classifier",
                             "trained Random Forest Classifier")>>)>>)>>}

\* The slot of the caller's label_encoder_params dict
LabelEncoderRef == 1

NoEnsemble == Ensemble("none", <<>>, 0, "", <<>>, <<>>)

NoArguments ==
    [input_pipelines |-> <<>>, problem_type |-> "", n_jobs |-> 0,
     cached_data |-> <<>>, label_encoder_params |-> 0]

(***************************************************************************)
(* The state machine: a caller that keeps one label_encoder_params dict,   *)
(* one n_jobs and one cache and calls _make_stacked_ensemble_pipeline with *)
(* them, again and again.  The heap holds the caller's dict and, in a      *)
(* second slot, the parameters of the last call when they are another      *)
(* object; `original` is the caller's dict as the caller built it, `entry` *)
(* the caller's dict on entry to the last call.                            *)
(***************************************************************************)
EnsembleInit ==
    /\ \E label_encoder_params \in LabelEncoderParams, n_jobs \in NJobs,
          cached_data \in CachedData :
          /\ heap = <<label_encoder_params>>
          /\ original = label_encoder_params
          /\ caller = [n_jobs |-> n_jobs, cached_data |-> cached_data]
    /\ args = NoArguments
    /\ entry = <<>>
    /\ result = [NoEnsemble EXCEPT !.heap = 0]
    /\ ncalls = 0

StackedEnsemble ==
    /\ ncalls < MaxCalls
    /\ \E input_pipelines \in EnsemblePipelineLists(MaxPipelines),
          problem_type \in EnsembleProblemTypes,
          label_encoder_params \in {0, LabelEncoderRef} :
          \E a \in {[input_pipelines |-> input_pipelines,
                     problem_type |-> problem_type,
                     n_jobs |-> caller.n_jobs,
                     cached_data |-> caller.cached_data,
                     label_encoder_params |-> label_encoder_params]} :
          \E r \in {make_stacked_ensemble_pipeline(<<heap[LabelEncoderRef]>>, a)} :
             /\ args' = a
             /\ entry' = heap[LabelEncoderRef]
             /\ heap' = IF r.parameters \in {0, LabelEncoderRef}
                        THEN <<r.heap[LabelEncoderRef]>>
                        ELSE <<r.heap[LabelEncoderRef], r.heap[r.parameters]>>
             /\ result' = [r EXCEPT !.heap = 0,
                             !.parameters =
                                 IF r.parameters \in {0, LabelEncoderRef}
                                 THEN r.parameters ELSE 2]
    /\ ncalls' = ncalls + 1
    /\ UNCHANGED <<caller, original>>

EnsembleNext == StackedEnsemble

EnsembleSpec == EnsembleInit /\ [][EnsembleNext]_vars

(***************************************************************************)
(* Vocabulary of the properties of the stacked ensemble                    *)
(***************************************************************************)
EnsembleCalled == ncalls >= 1

EnsembleMade == EnsembleCalled /\ result.status = "ok"

CallersLabelEncoderParams == heap[LabelEncoderRef]

EnsembleParameters == heap[result.parameters]

EnsembleEstimator ==
    IF is_classification(args.problem_type)
    THEN "Stacked Ensemble Classifier" ELSE "Stacked Ensemble Regressor"

\* the keys the call writes for the nodes of its input pipelines
NodeKeys ==
    LET graph == make_stacked_ensemble_pipeline(<<<<>>>>,
                     [args EXCEPT !.label_encoder_params = 0]).component_graph
    IN  {graph[i].k : i \in 1..Len(graph)}

NJobsThreaded ==
    /\ HasKey(EnsembleParameters, EnsembleEstimator)
    /\ DictGet(EnsembleParameters, EnsembleEstimator)
          = <<Entry("n_jobs", caller.n_jobs)>>

NothingLeftOver ==
    \A q \in 1..Len(EnsembleParameters) :
        \/ EnsembleParameters[q].k = EnsembleEstimator
        \/ EnsembleParameters[q].k \in NodeKeys
        \/ /\ args.label_encoder_params # 0
           /\ is_classification(args.problem_type)
           /\ HasKey(original, EnsembleParameters[q].k)

(***************************************************************************)
(* C30: _make_stacked_ensemble_pipeline leaves the caller's                *)
(* label_encoder_params dict as the caller built it, for every problem     *)
(* type and after any number of calls with the same dict: it holds no      *)
(* stacked ensemble entry and no entry of a node, so the parameters of a   *)
(* later call hold nothing of an earlier call's input pipelines; and the   *)
(* parameters given to the pipeline hold n_jobs unchanged under the name   *)
(* of the stacked ensemble estimator.                                      *)
(***************************************************************************)
C30_LabelEncoderParamsUntouched ==
    /\ EnsembleCalled => CallersLabelEncoderParams = original
    /\ EnsembleMade => (NJobsThreaded /\ NothingLeftOver)

\* n_jobs is threaded unchanged in every call that returns a pipeline.
NJobsThreadedAlways == EnsembleMade => NJobsThreaded

\* The caller's dict is changed only by classification calls that pass it
\* non-empty.
ChangedOnlyByClassification ==
    (EnsembleCalled /\ CallersLabelEncoderParams # entry) =>
        /\ is_classification(args.problem_type)
        /\ args.label_encoder_params = LabelEncoderRef
        /\ entry # <<>>

====
